---- MODULE Spec2Model ----
(***************************************************************************)
(* A model of ohmu's CFG reducer (CFGReducer.cpp) and of the CFG           *)
(* normalisation of the TIL library (ThreadSafetyTIL.cpp).                 *)
(*                                                                         *)
(* Heap objects are identified by their allocation index: a BasicBlock is  *)
(* an index into rd.blocks, a VarDecl an index into rd.vardecls, 0 is the  *)
(* null pointer.  A failed assert aborts the process: the handler leaves   *)
(* the state as it was when the assert was reached and records the message *)
(* in rd.fatal; no action is enabled afterwards.  A read through a null    *)
(* pointer sets rd.ub and either stops the process or yields any block or  *)
(* null.  Two further parts model the DiagnosticEmitter                    *)
(* (DiagnosticEmitter.h) with what it writes to its stream, and the        *)
(* SimpleArray (SimpleArray.h) that holds the blocks and instructions.     *)
(***************************************************************************)
EXTENDS Integers, Sequences, FiniteSets, TLC

VARIABLES
  rd,      \* the fields of the CFGReducer and the objects of its arena (in
           \* the diagnostics specification: the DiagnosticEmitter; in the
           \* array specification: the SimpleArray)
  stack,   \* the C++ call stack of the recursive traversal (return points)
  ret,     \* the value returned by the traversal that finished last
  norm,    \* the stage computeNormalForm has reached on a client's SCFG
  prog,    \* the input of CFGReducer::lower: what was read of it, what is left
  hist     \* history (ghost) variable: a log of the calls made so far

vars == <<rd, stack, ret, norm, prog, hist>>

-----------------------------------------------------------------------------
(* Bounds of the model *)

\* blocks allocated in one run of the block-level specification
MaxBlocks == 5
\* phi arguments of a block allocated by the block-level driver
MaxPhis == 2
\* predecessor edges added in one run of the block-level specification
MaxEdges == 3
\* conditionals, bindings and calls of an input expression
MaxNodes == 5
\* local functions of an input expression
MaxFuns == 2
\* blocks of an SCFG handed to computeNormalForm
NormBlocks == 5
\* conditionals, bindings and functions of an expression without local functions
MaxExprNodes == 3
\* conditionals, bindings and calls of an input expression translated to its end
MaxLiveNodes == 4
\* declarations made in one run of the scope-level specification
MaxDecls == 2
\* blocks of an SCFG that starts with a block no terminator names
OrphanBlocks == 4
\* calls on one DiagnosticEmitter and the stream it returns
MaxDiagCalls == 3
\* the instructions of the pool of the instruction-buffer driver
MaxInstrs == 2
\* the blocks of the instruction-buffer driver, Entry and Exit included
InstrBlocks == 3
\* local functions and calls in the body of a top-level function with a
\* parameter
MaxFunNodes == 4
\* the largest size a client of a SimpleArray asks for
MaxArraySize == 6

-----------------------------------------------------------------------------
(* Values: the SExpr nodes the reducer passes around *)

NoBlock == 0
NoName == 0
NoDecl == 0

\* the names of the input: the parameter x, the let-bound y, and FunName(i)
\* for the i-th local function
NameX == 1
NameY == 2
NameP == 3
FunName(i) == 10 + i

Null == [k |-> "null", a |-> 0, b |-> 0]
Lit(v) == [k |-> "lit", a |-> v, b |-> 0]
PhiRef(bb, i) == [k |-> "phi", a |-> bb, b |-> i]
\* Variable(vd): a reference to the declaration vd
VarRef(vd) == [k |-> "var", a |-> vd, b |-> 0]
\* a copy of an Identifier that did not resolve
Unresolved(name) == [k |-> "ident", a |-> name, b |-> 0]
\* the Code node number id made by reduceCode; 0: a Code that is no block
CodeRef(id) == [k |-> "code", a |-> id, b |-> 0]
\* d Function nodes around the Code node number id
FunVal(id, d) == [k |-> "fun", a |-> id, b |-> d]
\* the Apply node CopyReducer::reduceApply builds
ApplyVal == [k |-> "apply", a |-> 0, b |-> 0]
\* instruction number id (a Call built by CopyReducer::reduceCall)
Instr(id) == [k |-> "instr", a |-> id, b |-> 0]

\* the literal values a driver supplies
Vals == {10, 20, 30}

NoTerm == [k |-> "none", t1 |-> NoBlock, t2 |-> NoBlock, idx |-> 0, cond |-> Null]
Branch(c, tb, eb) == [k |-> "branch", t1 |-> tb, t2 |-> eb, idx |-> 0, cond |-> c]
Goto(target, idx) == [k |-> "goto", t1 |-> target, t2 |-> NoBlock, idx |-> idx, cond |-> Null]
Return(v) == [k |-> "return", t1 |-> NoBlock, t2 |-> NoBlock, idx |-> 0, cond |-> v]

NoFatal == ""
Fatal(r, msg) == [r EXCEPT !.fatal = msg]

-----------------------------------------------------------------------------
(* BasicBlock *)

\* BasicBlock::TopologyNode of a new block
NewTopologyNode == [NodeID |-> 0, SizeOfSubTree |-> 0, Parent |-> NoBlock]

\* new (Arena) BasicBlock(Arena): no arguments, predecessors, instructions
\* or terminator, not yet in any SCFG
NewBasicBlock ==
  [args |-> <<>>, argNames |-> <<>>, argBlock |-> <<>>, preds |-> <<>>,
   instrs |-> <<>>, term |-> NoTerm, cfg |-> FALSE,
   Visited |-> FALSE, BlockID |-> 0, PostBlockID |-> 0,
   DominatorNode |-> NewTopologyNode, PostDominatorNode |-> NewTopologyNode]

\* BasicBlock::addArgument(new Phi()): a phi with an empty operand list, no
\* name and no owning block yet
addArgument(blk) ==
  [blk EXCEPT !.args = Append(@, <<>>), !.argNames = Append(@, NoName),
              !.argBlock = Append(@, NoBlock)]

\* BasicBlock::addPredecessor, without its return value
addPredecessor_NoPhiSlot(r, target, pred) ==
  [r EXCEPT !.blocks[target].preds = Append(@, pred)]

addPredecessor_FirstPhiOnly(r, target, pred) ==
  [r EXCEPT !.blocks[target].preds = Append(@, pred),
            !.blocks[target].args =
               [i \in 1..Len(@) |-> IF i = 1 THEN Append(@[i], Null) ELSE @[i]]]

addPredecessor(r, target, pred) ==
  [r EXCEPT !.blocks[target].preds = Append(@, pred),
            !.blocks[target].args = [i \in 1..Len(@) |-> Append(@[i], Null)]]

\* the value BasicBlock::addPredecessor returns: Idx = Predecessors.size()
addPredecessorIdx(r, target) == Len(r.blocks[target].preds)

-----------------------------------------------------------------------------
(* CFGReducer: blocks *)

RECURSIVE addArguments(_, _)
addArguments(blk, n) == IF n = 0 THEN blk ELSE addArguments(addArgument(blk), n - 1)

\* CFGReducer::addBlock: the new block is the last of rd.blocks
addBlock(r, nargs) == [r EXCEPT !.blocks = Append(@, addArguments(NewBasicBlock, nargs))]
addBlockResult(r) == Len(r.blocks) + 1

\* SCFG::add, called by startBlock for a block that is in no SCFG yet
cfgAdd(r, bb) ==
  [r EXCEPT !.blocks[bb].cfg = TRUE, !.cfgBlocks = Append(@, bb)]

\* CFGReducer::startBlock
startBlock(r, bb) ==
  IF r.currentBB # NoBlock THEN Fatal(r, "Haven't finished current block.")
  ELSE IF r.currentArgs # <<>> THEN Fatal(r, "currentArgs_.empty()")
  ELSE IF r.currentInstrs # <<>> THEN Fatal(r, "currentInstrs_.empty()")
  ELSE IF Len(r.blocks[bb].instrs) # 0 THEN Fatal(r, "Already processed block.")
  ELSE LET r1 == [r EXCEPT !.currentBB = bb]
       IN IF ~r.blocks[bb].cfg THEN cfgAdd(r1, bb) ELSE r1

\* CFGReducer::finishBlock that leaves the block current
finishBlock_KeepsCurrent(r, term) ==
  IF r.currentBB = NoBlock THEN Fatal(r, "assert(currentBB_)")
  ELSE IF Len(r.blocks[r.currentBB].instrs) # 0
    THEN Fatal(r, "currentBB_->instructions().size() == 0")
  ELSE [r EXCEPT !.blocks[r.currentBB].instrs = r.currentInstrs,
                 !.blocks[r.currentBB].term = term,
                 !.currentArgs = <<>>,
                 !.currentInstrs = <<>>]

\* CFGReducer::finishBlock
finishBlock(r, term) ==
  IF r.currentBB = NoBlock THEN Fatal(r, "assert(currentBB_)")
  ELSE IF Len(r.blocks[r.currentBB].instrs) # 0
    THEN Fatal(r, "currentBB_->instructions().size() == 0")
  ELSE [r EXCEPT !.blocks[r.currentBB].instrs = r.currentInstrs,
                 !.blocks[r.currentBB].term = term,
                 !.currentArgs = <<>>,
                 !.currentInstrs = <<>>,
                 !.currentBB = NoBlock]

\* CFGReducer::createBranch; the Branch it returns is the terminator of the
\* block that was current
createBranch(r, cond) ==
  IF r.currentBB = NoBlock THEN Fatal(r, "assert(currentBB_)")
  ELSE LET ntb == addBlockResult(r)
           r1  == addPredecessor(addBlock(r, 0), ntb, r.currentBB)
           neb == addBlockResult(r1)
           r2  == addPredecessor(addBlock(r1, 0), neb, r.currentBB)
       IN finishBlock(r2, Branch(cond, ntb, neb))

\* CFGReducer::createGoto(BasicBlock*, SExpr*) without the write of the phi
\* operand
createGoto1_NoOperand(r, target, result) ==
  IF r.currentBB = NoBlock THEN Fatal(r, "assert(currentBB_)")
  ELSE IF Len(r.blocks[target].args) # 1
    THEN Fatal(r, "target->arguments().size() == 1")
  ELSE LET idx == addPredecessorIdx(r, target)
       IN finishBlock(addPredecessor(r, target, r.currentBB), Goto(target, idx))

\* CFGReducer::createGoto(BasicBlock*, SExpr*)
createGoto1(r, target, result) ==
  IF r.currentBB = NoBlock THEN Fatal(r, "assert(currentBB_)")
  ELSE IF Len(r.blocks[target].args) # 1
    THEN Fatal(r, "target->arguments().size() == 1")
  ELSE LET idx == addPredecessorIdx(r, target)
           r1  == addPredecessor(r, target, r.currentBB)
           r2  == [r1 EXCEPT !.blocks[target].args[1][idx + 1] = result]
       IN finishBlock(r2, Goto(target, idx))

\* CFGReducer::createGoto(BasicBlock*, std::vector<SExpr*>&, unsigned) with
\* the arity check moved behind the edge and the phi writes
createGotoN_CheckLate(r, target, args, nargs) ==
  IF r.currentBB = NoBlock THEN Fatal(r, "assert(currentBB_)")
  ELSE LET idx   == addPredecessorIdx(r, target)
           first == Len(args) - nargs
           n     == IF nargs < Len(r.blocks[target].args)
                      THEN nargs ELSE Len(r.blocks[target].args)
           r1    == addPredecessor(r, target, r.currentBB)
           r2    == [r1 EXCEPT !.blocks[target].args =
                       [i \in 1..Len(@) |->
                          IF i <= n THEN [@[i] EXCEPT ![idx + 1] = args[first + i]]
                          ELSE @[i]]]
       IN IF Len(r.blocks[target].args) # nargs
            THEN Fatal(r2, "goto arity") ELSE finishBlock(r2, Goto(target, idx))

\* the phi writes of createGoto at a slot that is not the edge's own
createGotoN_Slot0(r, target, args, nargs) ==
  IF r.currentBB = NoBlock THEN Fatal(r, "assert(currentBB_)")
  ELSE IF Len(r.blocks[target].args) # nargs THEN Fatal(r, "goto arity")
  ELSE LET idx   == addPredecessorIdx(r, target)
           first == Len(args) - nargs
           r1    == addPredecessor(r, target, r.currentBB)
           r2    == [r1 EXCEPT !.blocks[target].args =
                       [i \in 1..Len(@) |-> [@[i] EXCEPT ![1] = args[first + i]]]]
       IN finishBlock(r2, Goto(target, idx))

\* CFGReducer::createGoto(BasicBlock*, std::vector<SExpr*>&, unsigned)
createGotoN(r, target, args, nargs) ==
  IF r.currentBB = NoBlock THEN Fatal(r, "assert(currentBB_)")
  ELSE IF Len(r.blocks[target].args) # nargs THEN Fatal(r, "goto arity")
  ELSE LET idx   == addPredecessorIdx(r, target)
           first == Len(args) - nargs
           r1    == addPredecessor(r, target, r.currentBB)
           r2    == [r1 EXCEPT !.blocks[target].args =
                       [i \in 1..Len(@) |-> [@[i] EXCEPT ![idx + 1] = args[first + i]]]]
       IN finishBlock(r2, Goto(target, idx))

\* the reducer after its constructor: no CFG, no block, an empty scope
NewReducer ==
  [blocks |-> <<>>, cfgBlocks |-> <<>>, entry |-> NoBlock, exit |-> NoBlock,
   currentCFG |-> FALSE, currentBB |-> NoBlock, currentContinuation |-> NoBlock,
   currentArgs |-> <<>>, currentInstrs |-> <<>>,
   instrs |-> <<>>, vardecls |-> <<>>, varCtx |-> <<>>, varCtxNull |-> FALSE,
   pendingPathArgs |-> <<>>, pendingPathArgLen |-> 0,
   pendingBlocks |-> <<>>, pendingBlockQueue |-> <<>>,
   codeMap |-> <<>>, fatal |-> NoFatal, ub |-> FALSE]

\* SCFG::SCFG: Entry and Exit are allocated and added to the block array;
\* Exit has one phi argument and returns it
newSCFG(r) ==
  LET en == Len(r.blocks) + 1
      ex == Len(r.blocks) + 2
      eb == [NewBasicBlock EXCEPT !.cfg = TRUE]
      xb == [addArgument(NewBasicBlock) EXCEPT !.cfg = TRUE,
                                                !.term = Return(PhiRef(ex, 1))]
  IN [r EXCEPT !.blocks = @ \o <<eb, xb>>, !.cfgBlocks = <<en, ex>>,
               !.entry = en, !.exit = ex, !.currentCFG = TRUE]

\* CFGReducer::startCFG
startCFG(r) ==
  IF r.currentCFG \/ r.currentBB # NoBlock THEN Fatal(r, "Already inside a CFG")
  ELSE LET r1 == newSCFG(r)
           r2 == [r1 EXCEPT !.currentBB = r1.entry, !.currentContinuation = r1.exit]
       IN IF Len(r2.blocks[r2.currentBB].instrs) # 0
            THEN Fatal(r2, "currentBB_->instructions().size() == 0") ELSE r2

-----------------------------------------------------------------------------
(* SCFG: the normal form.  r.cfgBlocks is the array Blocks; index i of the *)
(* source is position i + 1 here.                                          *)

\* BasicBlock::successors: the targets of the terminator
successors(r, b) ==
  LET t == r.blocks[b].term
  IN IF t.k = "branch" THEN <<t.t1, t.t2>>
     ELSE IF t.k = "goto" THEN <<t.t1>>
     ELSE <<>>

Sorted(r, id) == [r |-> r, id |-> id]

\* BasicBlock::postTopologicalSort, and its loop over the predecessors
RECURSIVE postTopologicalSort(_, _, _)
RECURSIVE postTopologicalSortAll(_, _, _, _)
postTopologicalSort(r, b, id) ==
  IF r.fatal # NoFatal \/ r.blocks[b].Visited THEN Sorted(r, id)
  ELSE LET r1 == [r EXCEPT !.blocks[b].Visited = TRUE]
           p  == r1.blocks[b].DominatorNode.Parent
           s1 == IF p # NoBlock THEN postTopologicalSort(r1, p, id) ELSE Sorted(r1, id)
           s2 == postTopologicalSortAll(s1.r, r.blocks[b].preds, 1, s1.id)
       IN IF s2.r.fatal # NoFatal THEN s2
          ELSE IF s2.id <= 0 THEN Sorted(Fatal(s2.r, "ID > 0"), s2.id)
          ELSE Sorted([s2.r EXCEPT !.blocks[b].PostBlockID = s2.id - 1,
                                   !.cfgBlocks[s2.id] = b], s2.id - 1)
postTopologicalSortAll(r, bs, i, id) ==
  IF i > Len(bs) THEN Sorted(r, id)
  ELSE LET s == postTopologicalSort(r, bs[i], id)
       IN postTopologicalSortAll(s.r, bs, i + 1, s.id)

RECURSIVE topologicalSort(_, _, _)
RECURSIVE topologicalSortAll(_, _, _, _)

\* BasicBlock::topologicalSort that numbers a block before its successors
topologicalSort_SuccessorsLast(r, b, id) ==
  IF r.fatal # NoFatal \/ r.blocks[b].Visited THEN Sorted(r, id)
  ELSE IF id <= 0 THEN Sorted(Fatal(r, "ID > 0"), id)
  ELSE topologicalSortAll([r EXCEPT !.blocks[b].Visited = TRUE,
                                    !.blocks[b].BlockID = id - 1,
                                    !.cfgBlocks[id] = b],
                          successors(r, b), 1, id - 1)

\* BasicBlock::topologicalSort, and its loop over the successors
topologicalSort(r, b, id) ==
  IF r.fatal # NoFatal \/ r.blocks[b].Visited THEN Sorted(r, id)
  ELSE LET r1 == [r EXCEPT !.blocks[b].Visited = TRUE]
           p  == r1.blocks[b].PostDominatorNode.Parent
           s1 == IF p # NoBlock THEN topologicalSort(r1, p, id) ELSE Sorted(r1, id)
           s2 == topologicalSortAll(s1.r, successors(r, b), 1, s1.id)
       IN IF s2.r.fatal # NoFatal THEN s2
          ELSE IF s2.id <= 0 THEN Sorted(Fatal(s2.r, "ID > 0"), s2.id)
          ELSE Sorted([s2.r EXCEPT !.blocks[b].BlockID = s2.id - 1,
                                   !.cfgBlocks[s2.id] = b], s2.id - 1)
topologicalSortAll(r, bs, i, id) ==
  IF i > Len(bs) THEN Sorted(r, id)
  ELSE LET s == topologicalSort(r, bs[i], id)
       IN topologicalSortAll(s.r, bs, i + 1, s.id)

\* what the common-ancestor walk yields when it reads through a null pointer
Undef == 0 - 1
\* the outcomes of such a read: the program stops (Crash), or it goes on
\* with whatever it read (a block or null)
Crash == 0 - 2

\* the loop "while (Alternate != Candidate)" of computeDominator and of
\* computePostDominator; idf is BlockID or PostBlockID, tn the tree
RECURSIVE commonAncestor(_, _, _, _, _, _)
commonAncestor(r, idf, tn, cand, alt, fuel) ==
  IF alt = cand THEN cand
  ELSE IF cand = NoBlock \/ alt = NoBlock \/ fuel = 0 THEN Undef
  ELSE IF r.blocks[cand][idf] > r.blocks[alt][idf]
    THEN commonAncestor(r, idf, tn, r.blocks[cand][tn].Parent, alt, fuel - 1)
  ELSE commonAncestor(r, idf, tn, cand, r.blocks[alt][tn].Parent, fuel - 1)

\* the loop without the walk to the common ancestor: the first edge that is
\* not a back-edge gives the parent
candidate_FirstEdge(r, idf, tn, b, bs, i, cand) ==
  LET ok == {j \in i..Len(bs) : r.blocks[bs[j]][idf] < r.blocks[b][idf]}
  IN IF cand # NoBlock THEN cand
     ELSE IF ok = {} THEN NoBlock
     ELSE bs[CHOOSE j \in ok : \A k \in ok : j <= k]

\* the loop over the predecessors (successors) of b
RECURSIVE candidate(_, _, _, _, _, _, _)
candidate(r, idf, tn, b, bs, i, cand) ==
  IF i > Len(bs) THEN cand
  ELSE IF r.blocks[bs[i]][idf] >= r.blocks[b][idf]
    THEN candidate(r, idf, tn, b, bs, i + 1, cand)
  ELSE IF cand = NoBlock THEN candidate(r, idf, tn, b, bs, i + 1, bs[i])
  ELSE LET c == commonAncestor(r, idf, tn, cand, bs[i], 2 * Len(r.blocks))
       IN IF c = Undef THEN Undef
          ELSE candidate(r, idf, tn, b, bs, i + 1, c)

\* the parent is set from the candidate; g is the outcome of a read through
\* a null pointer, should there be one
setParent(r, tn, b, cand, g) ==
  IF cand = Undef
    THEN IF g = Crash THEN Fatal([r EXCEPT !.ub = TRUE], "null dereference")
         ELSE [r EXCEPT !.ub = TRUE,
                        !.blocks[b][tn] = [@ EXCEPT !.Parent = g, !.SizeOfSubTree = 1]]
    ELSE [r EXCEPT !.blocks[b][tn] = [@ EXCEPT !.Parent = cand, !.SizeOfSubTree = 1]]

\* BasicBlock::computeDominator
computeDominator(r, b, g) ==
  setParent(r, "DominatorNode", b,
            candidate(r, "BlockID", "DominatorNode", b, r.blocks[b].preds, 1, NoBlock), g)

\* BasicBlock::computePostDominator
computePostDominator(r, b, g) ==
  setParent(r, "PostDominatorNode", b,
            candidate(r, "PostBlockID", "PostDominatorNode", b, successors(r, b), 1, NoBlock), g)

\* computeNodeSize(B, TN)
computeNodeSize(r, b, tn) ==
  LET n == r.blocks[b][tn]
  IN IF n.Parent # NoBlock
       THEN LET psize == r.blocks[n.Parent][tn].SizeOfSubTree
            IN [r EXCEPT !.blocks[b][tn].NodeID = psize,
                         !.blocks[n.Parent][tn].SizeOfSubTree = psize + n.SizeOfSubTree]
       ELSE r

\* computeNodeID(B, TN)
computeNodeID(r, b, tn) ==
  LET n == r.blocks[b][tn]
  IN IF n.Parent # NoBlock
       THEN [r EXCEPT !.blocks[b][tn].NodeID = @ + r.blocks[n.Parent][tn].NodeID]
       ELSE r

\* computeDominator run once more on Blocks[i], Blocks[i+1], ...
RECURSIVE rerunDominators(_, _, _)
rerunDominators(r, i, g) ==
  IF r.fatal # NoFatal \/ i > Len(r.cfgBlocks) THEN r
  ELSE rerunDominators(computeDominator(r, r.cfgBlocks[i], g), i + 1, g)

\* the block whose PostBlockID is id
postBlock(r, id) == CHOOSE b \in 1..Len(r.blocks) : r.blocks[b].cfg /\ r.blocks[b].PostBlockID = id

\* computePostDominator run once more on the blocks with the post-order IDs
\* id, id + 1, ...
RECURSIVE rerunPostDominators(_, _, _)
rerunPostDominators(r, id, g) ==
  IF r.fatal # NoFatal \/ id >= Len(r.cfgBlocks) THEN r
  ELSE rerunPostDominators(computePostDominator(r, postBlock(r, id), g), id + 1, g)

\* the sort from Exit without the assertion on its result
sortFromExit_NoAssert(r) == postTopologicalSort(r, r.exit, Len(r.cfgBlocks)).r

\* computeNormalForm: the sort from Exit and its assertion
sortFromExit(r) ==
  LET s == postTopologicalSort(r, r.exit, Len(r.cfgBlocks))
  IN IF s.r.fatal # NoFatal THEN s.r
     ELSE IF s.id # 0 THEN Fatal(s.r, "NumUnreachableBlocks == 0")
     ELSE s.r

\* computeNormalForm: the loop that computes the post-dominators
RECURSIVE postDominators(_, _, _)
postDominators(r, i, g) ==
  IF r.fatal # NoFatal \/ i > Len(r.cfgBlocks) THEN r
  ELSE LET b  == r.cfgBlocks[i]
           r1 == computePostDominator(r, b, g)
       IN postDominators(IF r1.fatal # NoFatal THEN r1
                         ELSE [r1 EXCEPT !.blocks[b].Visited = FALSE], i + 1, g)

\* computeNormalForm: the sort from Entry and its assertion
sortFromEntry(r) ==
  LET s == topologicalSort(r, r.entry, Len(r.cfgBlocks))
  IN IF s.r.fatal # NoFatal THEN s.r
     ELSE IF s.id # 0 THEN Fatal(s.r, "NumUnreachableBlocks == 0")
     ELSE s.r

\* SCFG::renumber: the block IDs (the instruction IDs are not modelled)
RECURSIVE renumber(_, _)
renumber(r, i) ==
  IF r.fatal # NoFatal \/ i > Len(r.cfgBlocks) THEN r
  ELSE renumber([r EXCEPT !.blocks[r.cfgBlocks[i]].BlockID = i - 1], i + 1)

\* computeNormalForm: the loop that computes the dominators and the sizes
\* of the post-dominator subtrees
RECURSIVE dominators(_, _, _)
dominators(r, i, g) ==
  IF r.fatal # NoFatal \/ i > Len(r.cfgBlocks) THEN r
  ELSE LET b  == r.cfgBlocks[i]
           r1 == computeDominator(r, b, g)
       IN dominators(IF r1.fatal # NoFatal THEN r1
                     ELSE computeNodeSize(r1, b, "PostDominatorNode"), i + 1, g)

\* computeNormalForm: the loop over Blocks.reverse()
RECURSIVE nodeSizes(_, _)
nodeSizes(r, i) ==
  IF r.fatal # NoFatal \/ i < 1 THEN r
  ELSE LET b == r.cfgBlocks[i]
       IN nodeSizes(computeNodeID(computeNodeSize(r, b, "DominatorNode"),
                                  b, "PostDominatorNode"), i - 1)

\* computeNormalForm: the last loop
RECURSIVE nodeIDs(_, _)
nodeIDs(r, i) ==
  IF r.fatal # NoFatal \/ i > Len(r.cfgBlocks) THEN r
  ELSE nodeIDs(computeNodeID(r, r.cfgBlocks[i], "DominatorNode"), i + 1)

\* SCFG::computeNormalForm
computeNormalForm(r, g) ==
  nodeIDs(nodeSizes(dominators(renumber(sortFromEntry(
    postDominators(sortFromExit(r), 1, g)), 1), 1, g), Len(r.cfgBlocks)), 1)

\* the outcomes of computeNormalForm: one, unless it reads through a null
\* pointer
Garbage(r) == {Crash, NoBlock} \cup (1..Len(r.blocks))
NormalForms(r) ==
  IF computeNormalForm(r, Crash).ub
    THEN {computeNormalForm(r, g) : g \in Garbage(r)}
    ELSE {computeNormalForm(r, Crash)}

-----------------------------------------------------------------------------
(* CFGReducer: scopes, instructions and reductions *)

\* what a handler hands back: the reducer after it and the SExpr* it returns
Res(r, v) == [r |-> r, v |-> v]

VarDeclRec(name, kind, def) == [name |-> name, kind |-> kind, def |-> def]

\* VarContext::operator[]: entry i counted from the most recent one (0)
ctxAt(ctx, i) == ctx[Len(ctx) - i]

\* VarContext::lookup: the most recently pushed declaration with that name
RECURSIVE lookupFrom(_, _, _, _)
lookupFrom(r, ctx, name, i) ==
  IF i >= Len(ctx) THEN NoDecl
  ELSE IF r.vardecls[ctxAt(ctx, i)].name = name THEN ctxAt(ctx, i)
  ELSE lookupFrom(r, ctx, name, i + 1)

\* a lookup that scans from the oldest entry
lookup_Oldest(r, name) ==
  LET hits == {i \in 1..Len(r.varCtx) : r.vardecls[r.varCtx[i]].name = name}
  IN IF hits = {} THEN NoDecl
     ELSE r.varCtx[CHOOSE i \in hits : \A j \in hits : i <= j]

lookup(r, name) == lookupFrom(r, r.varCtx, name, 0)

\* new (Arena) VarDecl
newVarDecl(r, name, kind, def) ==
  [r EXCEPT !.vardecls = Append(@, VarDeclRec(name, kind, def))]

\* CFGReducer::enterScope (the naming of an unnamed instruction is left out)
enterScope(r, origName, nv) ==
  IF origName # NoName
    THEN IF r.varCtxNull THEN Fatal(r, "null varCtx_")
         ELSE [r EXCEPT !.varCtx = Append(@, nv)]
    ELSE r

\* exitScope without the assertion
exitScope_NoCheck(r, origName) ==
  IF origName # NoName
    THEN IF r.varCtxNull \/ r.varCtx = <<>> THEN Fatal(r, "null varCtx_")
         ELSE [r EXCEPT !.varCtx = SubSeq(@, 1, Len(@) - 1)]
    ELSE r

\* CFGReducer::exitScope
exitScope(r, origName) ==
  IF origName # NoName
    THEN IF r.varCtxNull \/ r.varCtx = <<>> THEN Fatal(r, "null varCtx_")
         ELSE IF origName # r.vardecls[r.varCtx[Len(r.varCtx)]].name
           THEN Fatal(r, "Variable mismatch")
         ELSE [r EXCEPT !.varCtx = SubSeq(@, 1, Len(@) - 1)]
    ELSE r

\* CFGReducer::addInstruction that does not look at the block of the
\* instruction
addInstruction_NoDedup(r, e) ==
  IF e = Null THEN r
  ELSE IF e.k \in {"lit", "var", "apply"} THEN r
  ELSE IF e.k = "instr"
    THEN [r EXCEPT !.instrs[e.a] = r.currentBB, !.currentInstrs = Append(@, e)]
  ELSE IF e.k = "phi"
    THEN [r EXCEPT !.blocks[e.a].argBlock[e.b] = r.currentBB,
                   !.currentInstrs = Append(@, e)]
  ELSE r

\* CFGReducer::addInstruction: literals, variables and applications are not
\* instructions of a block; an instruction (a call, a phi) that has no block
\* yet is stamped with the current block and buffered
addInstruction(r, e) ==
  IF e = Null THEN r
  ELSE IF e.k \in {"lit", "var", "apply"} THEN r
  ELSE IF e.k = "instr"
    THEN IF r.instrs[e.a] = NoBlock
           THEN [r EXCEPT !.instrs[e.a] = r.currentBB,
                          !.currentInstrs = Append(@, e)]
           ELSE r
  ELSE IF e.k = "phi"
    THEN IF r.blocks[e.a].argBlock[e.b] = NoBlock
           THEN [r EXCEPT !.blocks[e.a].argBlock[e.b] = r.currentBB,
                          !.currentInstrs = Append(@, e)]
           ELSE r
  ELSE r

\* reduceIdentifier with name-not-found as a failure
reduceIdentifier_FailsUnbound(r, name) ==
  IF r.varCtxNull THEN Res(Fatal(r, "null varCtx_"), Null)
  ELSE LET vd == lookup(r, name)
       IN IF vd # NoDecl
            THEN IF r.vardecls[vd].kind \in {"Let", "Letrec"}
                   THEN Res(r, r.vardecls[vd].def)
                   ELSE Res(r, VarRef(vd))
            ELSE Res(Fatal(r, "name not found"), Null)

\* CFGReducer::reduceIdentifier
reduceIdentifier(r, name) ==
  IF r.varCtxNull THEN Res(Fatal(r, "null varCtx_"), Null)
  ELSE LET vd == lookup(r, name)
       IN IF vd # NoDecl
            THEN IF r.vardecls[vd].kind \in {"Let", "Letrec"}
                   THEN Res(r, r.vardecls[vd].def)
                   ELSE Res(r, VarRef(vd))
            ELSE Res(r, Unresolved(name))

\* CFGReducer::reduceApply
reduceApply(r, e, a) ==
  IF e.k = "fun"
    THEN Res([r EXCEPT !.pendingPathArgs = Append(@, a)],
             IF e.b = 1 THEN CodeRef(e.a) ELSE FunVal(e.a, e.b - 1))
    ELSE Res(r, ApplyVal)

\* CopyReducer::reduceCall: a new Call instruction
copyReduceCall(r) ==
  Res([r EXCEPT !.instrs = Append(@, NoBlock)], Instr(Len(r.instrs) + 1))

numPendingArgs(r) == Len(r.pendingPathArgs) - r.pendingPathArgLen

\* CFGReducer::reduceCall that starts the continuation whether it was newly
\* made or not
reduceCall_ResumesAlways(r, e) ==
  IF e.k = "code" /\ e.a # 0
    THEN LET pi    == r.codeMap[e.a]
             cur   == r.currentContinuation
             cont  == IF cur # NoBlock THEN cur ELSE addBlockResult(r)
             r1    == IF cur # NoBlock THEN r ELSE addBlock(r, 1)
             pbc   == r1.pendingBlocks[pi].continuation
             r2    == IF pbc # NoBlock THEN r1
                      ELSE [r1 EXCEPT !.pendingBlocks[pi].continuation = cont]
             nargs == numPendingArgs(r2)
             r3    == createGotoN(r2, r2.pendingBlocks[pi].block, r2.pendingPathArgs, nargs)
             r4    == [r3 EXCEPT !.pendingBlockQueue = Append(@, pi),
                                 !.pendingPathArgs = SubSeq(@, 1, Len(@) - nargs)]
         IN IF pbc # NoBlock /\ pbc # cont
              THEN Res(Fatal(r1, "Cannot transform to tail call!"), Null)
            ELSE IF r3.fatal # NoFatal THEN Res(r3, Null)
            ELSE Res(startBlock(r4, cont), PhiRef(cont, 1))
    ELSE copyReduceCall(r)

\* CFGReducer::reduceCall without the push onto the queue
reduceCall_NoEnqueue(r, e) ==
  IF e.k = "code" /\ e.a # 0
    THEN LET pi    == r.codeMap[e.a]
             cur   == r.currentContinuation
             cont  == IF cur # NoBlock THEN cur ELSE addBlockResult(r)
             r1    == IF cur # NoBlock THEN r ELSE addBlock(r, 1)
             pbc   == r1.pendingBlocks[pi].continuation
             r2    == IF pbc # NoBlock THEN r1
                      ELSE [r1 EXCEPT !.pendingBlocks[pi].continuation = cont]
             nargs == numPendingArgs(r2)
             r3    == createGotoN(r2, r2.pendingBlocks[pi].block, r2.pendingPathArgs, nargs)
             r4    == [r3 EXCEPT !.pendingPathArgs = SubSeq(@, 1, Len(@) - nargs)]
         IN IF pbc # NoBlock /\ pbc # cont
              THEN Res(Fatal(r1, "Cannot transform to tail call!"), Null)
            ELSE IF r3.fatal # NoFatal THEN Res(r3, Null)
            ELSE IF r4.currentContinuation = NoBlock
              THEN Res(startBlock(r4, cont), PhiRef(cont, 1))
            ELSE Res(r4, Null)
    ELSE copyReduceCall(r)

\* CFGReducer::reduceCall with the continuation of the first call overwritten
\* by later calls
reduceCall_Overwrite(r, e) ==
  IF e.k = "code" /\ e.a # 0
    THEN LET pi    == r.codeMap[e.a]
             cur   == r.currentContinuation
             cont  == IF cur # NoBlock THEN cur ELSE addBlockResult(r)
             r1    == IF cur # NoBlock THEN r ELSE addBlock(r, 1)
             r2    == [r1 EXCEPT !.pendingBlocks[pi].continuation = cont]
             nargs == numPendingArgs(r2)
             r3    == createGotoN(r2, r2.pendingBlocks[pi].block, r2.pendingPathArgs, nargs)
             r4    == [r3 EXCEPT !.pendingBlockQueue = Append(@, pi),
                                 !.pendingPathArgs = SubSeq(@, 1, Len(@) - nargs)]
         IN IF r3.fatal # NoFatal THEN Res(r3, Null)
            ELSE IF r4.currentContinuation = NoBlock
              THEN Res(startBlock(r4, cont), PhiRef(cont, 1))
            ELSE Res(r4, Null)
    ELSE copyReduceCall(r)

\* CFGReducer::reduceCall without the comparison of the continuations
reduceCall_NoMismatchCheck(r, e) ==
  IF e.k = "code" /\ e.a # 0
    THEN LET pi    == r.codeMap[e.a]
             cur   == r.currentContinuation
             cont  == IF cur # NoBlock THEN cur ELSE addBlockResult(r)
             r1    == IF cur # NoBlock THEN r ELSE addBlock(r, 1)
             pbc   == r1.pendingBlocks[pi].continuation
             r2    == IF pbc # NoBlock THEN r1
                      ELSE [r1 EXCEPT !.pendingBlocks[pi].continuation = cont]
             nargs == numPendingArgs(r2)
             r3    == createGotoN(r2, r2.pendingBlocks[pi].block, r2.pendingPathArgs, nargs)
             r4    == [r3 EXCEPT !.pendingBlockQueue = Append(@, pi),
                                 !.pendingPathArgs = SubSeq(@, 1, Len(@) - nargs)]
         IN IF r3.fatal # NoFatal THEN Res(r3, Null)
            ELSE IF r4.currentContinuation = NoBlock
              THEN Res(startBlock(r4, cont), PhiRef(cont, 1))
            ELSE Res(r4, Null)
    ELSE copyReduceCall(r)

\* CFGReducer::reduceCall
reduceCall(r, e) ==
  IF e.k = "code" /\ e.a # 0
    THEN LET pi    == r.codeMap[e.a]
             cur   == r.currentContinuation
             cont  == IF cur # NoBlock THEN cur ELSE addBlockResult(r)
             r1    == IF cur # NoBlock THEN r ELSE addBlock(r, 1)
             pbc   == r1.pendingBlocks[pi].continuation
             r2    == IF pbc # NoBlock THEN r1
                      ELSE [r1 EXCEPT !.pendingBlocks[pi].continuation = cont]
             nargs == numPendingArgs(r2)
             r3    == createGotoN(r2, r2.pendingBlocks[pi].block, r2.pendingPathArgs, nargs)
             r4    == [r3 EXCEPT !.pendingBlockQueue = Append(@, pi),
                                 !.pendingPathArgs = SubSeq(@, 1, Len(@) - nargs)]
         IN IF pbc # NoBlock /\ pbc # cont
              THEN Res(Fatal(r1, "Cannot transform to tail call!"), Null)
            ELSE IF r3.fatal # NoFatal THEN Res(r3, Null)
            ELSE IF r4.currentContinuation = NoBlock
              THEN Res(startBlock(r4, cont), PhiRef(cont, 1))
            ELSE Res(r4, Null)
    ELSE copyReduceCall(r)

\* the number of function parameters on top of the scope stack
RECURSIVE countFunArgs(_, _)
countFunArgs(r, n) ==
  IF n < Len(r.varCtx) /\ r.vardecls[ctxAt(r.varCtx, n)].kind = "Fun"
    THEN countFunArgs(r, n + 1) ELSE n

\* PendingBlock::PendingBlock
PendingBlock(expr, block, ctx) ==
  [expr |-> expr, block |-> block, ctx |-> ctx, ctxNull |-> FALSE,
   continuation |-> NoBlock, processed |-> FALSE]

\* CFGReducer::reduceCode inside a CFG: a block with one phi per function
\* parameter on top of the scope stack, a clone of the scope in which these
\* parameters are bound to the phis, and a PendingBlock for the body
reduceCodeInCFG(r, body) ==
  LET nargs == countFunArgs(r, 0)
      b     == addBlockResult(r)
      r1    == addBlock(r, nargs)
      sz    == Len(r.varCtx)
      nd    == Len(r.vardecls)
      \* phi i (from 0) stands for scope entry j = nargs-1-i (from the top)
      r2    == [r1 EXCEPT
                 !.blocks[b].argNames =
                    [i \in 1..nargs |-> r.vardecls[ctxAt(r.varCtx, nargs - i)].name],
                 !.vardecls = @ \o
                    [i \in 1..nargs |->
                       VarDeclRec(r.vardecls[ctxAt(r.varCtx, nargs - i)].name,
                                  "Let", PhiRef(b, i))]]
      nvc   == [p \in 1..sz |->
                  IF sz - p < nargs THEN nd + (nargs - (sz - p)) ELSE r.varCtx[p]]
      pi    == Len(r.pendingBlocks) + 1
      r3    == [r2 EXCEPT !.pendingBlocks = Append(@, PendingBlock(body, b, nvc)),
                          !.codeMap = Append(@, pi)]
  IN IF r.varCtxNull THEN Res(Fatal(r, "null varCtx_"), Null)
     ELSE Res(r3, CodeRef(Len(r.codeMap) + 1))

\* CFGReducer::reduceCode that adds the new block to the SCFG at once
reduceCode_AddsToCFG(r, body) ==
  IF ~r.currentCFG THEN Res(r, CodeRef(0))
  ELSE LET res == reduceCodeInCFG(r, body)
       IN IF res.r.fatal # NoFatal THEN res
          ELSE Res(cfgAdd(res.r, Len(res.r.blocks)), res.v)

\* CFGReducer::reduceCode that records Exit as the continuation of the new
\* PendingBlock
reduceCode_AdoptsExit(r, body) ==
  IF ~r.currentCFG THEN Res(r, CodeRef(0))
  ELSE LET res == reduceCodeInCFG(r, body)
       IN IF res.r.fatal # NoFatal THEN res
          ELSE Res([res.r EXCEPT
                      !.pendingBlocks[Len(res.r.pendingBlocks)].continuation = r.exit],
                   res.v)

\* CFGReducer::reduceCode
reduceCode(r, body) ==
  IF ~r.currentCFG THEN Res(r, CodeRef(0)) ELSE reduceCodeInCFG(r, body)

-----------------------------------------------------------------------------
(* The block-level specification: a driver calls addBlock, startBlock,      *)
(* addPredecessor and the two createGoto on the blocks of one SCFG.         *)

NoCall == [r |-> Null, target |-> NoBlock, nargs |-> 0]
NoFailed == [r |-> Null, pi |-> 0, cont |-> NoBlock]
NoHist == [gotos |-> <<>>, pre |-> NoCall, bodies |-> <<>>, calls |-> <<>>,
           failed |-> NoFailed]
NoInput == [fuel |-> 0, nfuns |-> 0, shape |-> <<>>]

NumEdges(r) ==
  LET RECURSIVE Sum(_)
      Sum(i) == IF i = 0 THEN 0 ELSE Len(r.blocks[i].preds) + Sum(i - 1)
  IN Sum(Len(r.blocks))

\* the SCFG of startCFG plus one block with 0..MaxPhis phi arguments; the
\* blocks the driver allocates later are jump sources without arguments
BlockInit ==
  /\ \E nargs \in 0..MaxPhis : rd = addBlock(startCFG(NewReducer), nargs)
  /\ stack = <<>>
  /\ ret = Null
  /\ norm = [stage |-> "none"]
  /\ prog = NoInput
  /\ hist = NoHist

BlockFrame == UNCHANGED <<stack, ret, norm, prog>>

\* the blocks the driver adds edges to: Exit (one phi) and the block of
\* BlockInit (0..MaxPhis phis)
Targets == {rd.exit, rd.exit + 1}

\* the history of a createGoto call: a Goto that was emitted is logged with
\* the values it carried and the edge index it was given; a call that ended
\* in a failed assert leaves the state it started from in hist.pre
LogGoto(target, vals) ==
  IF rd'.fatal = NoFatal
    THEN hist' = [hist EXCEPT !.gotos =
                    Append(@, [target |-> target, vals |-> vals,
                               idx |-> rd'.blocks[rd.currentBB].term.idx])]
    ELSE hist' = [hist EXCEPT !.pre = [r |-> rd, target |-> target, nargs |-> Len(vals)]]

BAddBlock ==
  /\ rd.fatal = NoFatal
  /\ rd.currentBB = NoBlock
  /\ Len(rd.blocks) < MaxBlocks
  /\ rd' = addBlock(rd, 0)
  /\ UNCHANGED hist
  /\ BlockFrame

\* the driver starts the block allocated last, unless it is closed already
BStartBlock ==
  /\ rd.fatal = NoFatal
  /\ rd.blocks[Len(rd.blocks)].term = NoTerm
  /\ rd' = startBlock(rd, Len(rd.blocks))
  /\ UNCHANGED hist
  /\ BlockFrame

\* addPredecessor is always called with the current block (createBranch,
\* createGoto)
BAddPredecessor ==
  /\ rd.fatal = NoFatal
  /\ rd.currentBB # NoBlock
  /\ NumEdges(rd) < MaxEdges
  /\ \E target \in Targets : rd' = addPredecessor(rd, target, rd.currentBB)
  /\ UNCHANGED hist
  /\ BlockFrame

BCreateGoto1 ==
  /\ rd.fatal = NoFatal
  /\ rd.currentBB # NoBlock
  /\ NumEdges(rd) < MaxEdges
  /\ \E target \in Targets, v \in Vals :
       /\ rd' = createGoto1(rd, target, Lit(v))
       /\ LogGoto(target, <<Lit(v)>>)
  /\ BlockFrame

\* the pending-argument vectors a driver passes: n values v, v+1, ..., of
\* which the last nargs (all, or all but the first) belong to the jump
ArgVector(n, v) == [i \in 1..n |-> Lit(v + i - 1)]
ArgVectors == {ArgVector(n, v) : n \in 0..MaxPhis, v \in Vals}

BCreateGotoN ==
  /\ rd.fatal = NoFatal
  /\ rd.currentBB # NoBlock
  /\ NumEdges(rd) < MaxEdges
  /\ \E target \in Targets, args \in ArgVectors :
     \E nargs \in {Len(args), Len(args) - 1} \cap Nat :
       /\ rd' = createGotoN(rd, target, args, nargs)
       /\ LogGoto(target, SubSeq(args, Len(args) - nargs + 1, Len(args)))
  /\ BlockFrame

BlockNext ==
  \/ BAddBlock
  \/ BStartBlock
  \/ BAddPredecessor
  \/ BCreateGoto1
  \/ BCreateGotoN

SpecBlock == BlockInit /\ [][BlockNext]_vars

-----------------------------------------------------------------------------
(* A driver of the instruction buffer: startBlock, addInstruction and      *)
(* finishBlock in any order, on a pool of MaxInstrs instructions that no   *)
(* block owns yet.  Here hist records what the driver passed in: seen, the *)
(* instructions and phis passed to addInstruction so far, and Null if a    *)
(* value that is neither was passed; order, the instructions and phis that *)
(* were new when they were passed, in the order of their first pass since  *)
(* the last finishBlock; stored, for each block the value of order when it *)
(* was closed last; closed, whether the last call was a finishBlock that   *)
(* returned.                                                               *)

\* Instruction::block() of an instruction or of a phi
instrBlock(r, e) ==
  IF e.k = "instr" THEN r.instrs[e.a] ELSE r.blocks[e.a].argBlock[e.b]

\* the values a driver passes to addInstruction
InstrValues(r) ==
  {Null, Lit(10), VarRef(1), ApplyVal, PhiRef(r.exit, 1)}
    \cup {Instr(i) : i \in 1..Len(r.instrs)}

InstrInit ==
  /\ rd = [startCFG(NewReducer) EXCEPT !.instrs = [i \in 1..MaxInstrs |-> NoBlock]]
  /\ stack = <<>>
  /\ ret = Null
  /\ norm = [stage |-> "none"]
  /\ prog = NoInput
  /\ hist = [seen |-> {}, order |-> <<>>, stored |-> [b \in 1..Len(rd.blocks) |-> <<>>],
             closed |-> FALSE]

InstrFrame == UNCHANGED <<stack, ret, norm, prog>>

IAddBlock ==
  /\ rd.fatal = NoFatal
  /\ Len(rd.blocks) < InstrBlocks
  /\ rd' = addBlock(rd, 0)
  /\ hist' = [hist EXCEPT !.stored = Append(@, <<>>), !.closed = FALSE]
  /\ InstrFrame

IStartBlock ==
  /\ rd.fatal = NoFatal
  /\ \E bb \in 1..Len(rd.blocks) : rd' = startBlock(rd, bb)
  /\ hist' = [hist EXCEPT !.closed = FALSE]
  /\ InstrFrame

\* an instruction that is passed while no block is open stays without a
\* block and is buffered again each time: the driver stops at one instruction
\* more than the pool has
IAddInstruction ==
  /\ rd.fatal = NoFatal
  /\ Len(rd.currentInstrs) <= MaxInstrs
  /\ \E e \in InstrValues(rd) :
       /\ rd' = addInstruction(rd, e)
       /\ hist' = [hist EXCEPT
            !.seen = @ \cup {IF e.k \in {"instr", "phi"} THEN e ELSE Null},
            !.order = IF e.k \in {"instr", "phi"} /\ e \notin hist.seen
                        THEN Append(@, e) ELSE @,
            !.closed = FALSE]
  /\ InstrFrame

IFinishBlock ==
  /\ rd.fatal = NoFatal
  /\ rd' = finishBlock(rd, Return(Null))
  /\ hist' = IF rd'.fatal = NoFatal
               THEN [hist EXCEPT !.stored[rd.currentBB] = hist.order,
                                 !.order = <<>>,
                                 !.closed = TRUE]
               ELSE hist
  /\ InstrFrame

InstrNext ==
  \/ IAddBlock
  \/ IStartBlock
  \/ IAddInstruction
  \/ IFinishBlock

SpecInstr == InstrInit /\ [][InstrNext]_vars

-----------------------------------------------------------------------------
(* SimpleArray.  In this specification rd is one SimpleArray<T>: Data is   *)
(* the number of the allocation it points to (0: nullptr), cells the       *)
(* Capacity cells of that allocation, and fatal the assertion that failed. *)
(* hist records what the client did: stored, the elements it stored, in    *)
(* the order of their indices; last, its last call.                        *)

\* a cell of an allocation that was never written
Uninit == "?"

\* SimpleArray::InitialCapacity
InitialCapacity == 4

\* SimpleArray::SimpleArray()
NewSimpleArray == [Data |-> 0, cells |-> <<>>, Size |-> 0, Capacity |-> 0, fatal |-> NoFatal]

\* SimpleArray::u_max
u_max(i, j) == IF i < j THEN j ELSE i

\* SimpleArray::reserve that copies no cells
reserve_NoCopy(a, Ncp) ==
  IF Ncp <= a.Capacity THEN a
  ELSE [a EXCEPT !.Data = @ + 1,
                 !.Capacity = Ncp,
                 !.cells = [i \in 1..Ncp |-> Uninit]]

\* SimpleArray::reserve: a new allocation of Ncp cells, to which memcpy
\* copies the first Size cells of the old one
reserve(a, Ncp) ==
  IF Ncp <= a.Capacity THEN a
  ELSE [a EXCEPT !.Data = @ + 1,
                 !.Capacity = Ncp,
                 !.cells = [i \in 1..Ncp |-> IF i <= a.Size THEN a.cells[i] ELSE Uninit]]

\* SimpleArray::resize
resize(a, Nsz, V) ==
  IF Nsz <= a.Size THEN a
  ELSE LET a1 == reserve(a, Nsz)
       IN [a1 EXCEPT !.cells = [i \in 1..Len(@) |->
                                  IF a.Size < i /\ i <= Nsz THEN V ELSE @[i]],
                     !.Size = Nsz]

\* SimpleArray::reserveCheck
reserveCheck(a, N) ==
  IF a.Capacity = 0 THEN reserve(a, u_max(InitialCapacity, N))
  ELSE IF a.Size + N > a.Capacity THEN reserve(a, u_max(a.Size + N, a.Capacity * 2))
  ELSE a

\* SimpleArray::push_back
push_back(a, Elem) ==
  IF ~(a.Size < a.Capacity) THEN Fatal(a, "Size < Capacity")
  ELSE [a EXCEPT !.cells[a.Size + 1] = Elem, !.Size = @ + 1]

ArrayInit ==
  /\ rd = NewSimpleArray
  /\ stack = <<>>
  /\ ret = Null
  /\ norm = [stage |-> "none"]
  /\ prog = NoInput
  /\ hist = [stored |-> <<>>, last |-> [op |-> "SimpleArray", n |-> 0, v |-> Uninit]]

ArrayFrame == UNCHANGED <<stack, ret, norm, prog>>

\* the sizes a client asks for, and the elements it stores
ArraySizes == 0..MaxArraySize
ArrayElems == {"a", "b"}

AReserve ==
  /\ rd.fatal = NoFatal
  /\ \E Ncp \in ArraySizes :
       /\ rd' = reserve(rd, Ncp)
       /\ hist' = [hist EXCEPT !.last = [op |-> "reserve", n |-> Ncp, v |-> Uninit]]
  /\ ArrayFrame

AReserveCheck ==
  /\ rd.fatal = NoFatal
  /\ rd.Capacity <= MaxArraySize
  /\ \E N \in ArraySizes :
       /\ rd' = reserveCheck(rd, N)
       /\ hist' = [hist EXCEPT !.last = [op |-> "reserveCheck", n |-> N, v |-> Uninit]]
  /\ ArrayFrame

\* push_back after reserveCheck(1), as every caller does it
APushBack ==
  /\ rd.fatal = NoFatal
  /\ rd.Size < MaxArraySize
  /\ \E Elem \in ArrayElems :
       /\ rd' = push_back(reserveCheck(rd, 1), Elem)
       /\ hist' = [stored |-> Append(hist.stored, Elem),
                   last |-> [op |-> "push_back", n |-> 1, v |-> Elem]]
  /\ ArrayFrame

AResize ==
  /\ rd.fatal = NoFatal
  /\ \E Nsz \in ArraySizes, V \in ArrayElems :
       /\ rd' = resize(rd, Nsz, V)
       /\ hist' = [stored |-> hist.stored \o
                                [i \in 1..(IF Nsz > rd.Size THEN Nsz - rd.Size ELSE 0) |-> V],
                   last |-> [op |-> "resize", n |-> Nsz, v |-> V]]
  /\ ArrayFrame

ArrayNext ==
  \/ AReserve
  \/ AReserveCheck
  \/ APushBack
  \/ AResize

SpecArray == ArrayInit /\ [][ArrayNext]_vars

-----------------------------------------------------------------------------
(* The input expressions.  An expression is a TIL tree; a Hole is a part   *)
(* of the input that the traversal has not looked at yet, and the input is *)
(* drawn when the traversal reaches it.                                    *)

Hole == [op |-> "Hole"]
Literal(v) == [op |-> "Literal", v |-> v]
Identifier(n) == [op |-> "Identifier", name |-> n]
IfThenElse(c, t, e) == [op |-> "IfThenElse", cond |-> c, thenE |-> t, elseE |-> e]
Let(n, kind, def, body) == [op |-> "Let", name |-> n, kind |-> kind, def |-> def, body |-> body]
Function(n, body) == [op |-> "Function", name |-> n, body |-> body]
Code(body) == [op |-> "Code", body |-> body]
Call(target) == [op |-> "Call", target |-> target]
Apply(f, a) == [op |-> "Apply", fun |-> f, arg |-> a]
BinaryOp(bop, e0, e1) == [op |-> "BinaryOp", bop |-> bop, e0 |-> e0, e1 |-> e1]

\* let f(x) = body; rest          (kind Let or Letrec)
LetFun(f, kind, body, rest) == Let(f, kind, Function(NameX, Code(body)), rest)
\* f(a)
CallFun(f, a) == Call(Apply(Identifier(f), a))

\* x <= 0 and x - 1
XLeqZero == BinaryOp("<=", Identifier(NameX), Literal(0))
XMinusOne == BinaryOp("-", Identifier(NameX), Literal(1))

\* what a Hole can turn out to be: the leaf x, or one of let f(x) = .. ; ..,
\* let y = .. ; .., if x <= 0 then .. else .., f(x - 1), with holes for the
\* subexpressions
Leaves == {Identifier(NameX)}
Nodes(nfuns) ==
  {IfThenElse(XLeqZero, Hole, Hole), Let(NameY, "Let", Hole, Hole)}
  \cup {CallFun(FunName(i), XMinusOne) : i \in 1..nfuns}
NewFuns(nfuns) ==
  IF nfuns < MaxFuns THEN {LetFun(FunName(nfuns + 1), "Letrec", Hole, Hole)} ELSE {}

-----------------------------------------------------------------------------
(* The traversal.  stack holds the return points of the recursion, the     *)
(* innermost last; a "traverse" frame is a call of traverse(e, k) that has *)
(* not started.                                                            *)

Running == rd.fatal = NoFatal /\ stack # <<>>
Top == stack[Len(stack)]
Rest == SubSeq(stack, 1, Len(stack) - 1)
At(pc) == Running /\ Top.pc = pc
AtOp(op) == At("traverse") /\ Top.e.op = op

TraverseFrame(e, k) == [pc |-> "traverse", e |-> e, k |-> k]

\* CFGReducer::traverse, before the node is visited: the pending arguments
\* of an enclosing path are hidden unless this is a path, and only a tail
\* position keeps the continuation
enterTraverse(r, k) ==
  [r EXCEPT !.pendingPathArgLen = IF k # "Path" THEN Len(r.pendingPathArgs) ELSE @,
            !.currentContinuation = IF k # "Tail" THEN NoBlock ELSE @]

\* what CFGReducer::traverse restores when the visit returns
EndFrame(r, k) ==
  [pc |-> "traverse.end", k |-> k, cont |-> r.currentContinuation,
   plen |-> r.pendingPathArgLen]

\* CFGReducer::traverse, after the visit: in an open block the result is
\* added as an instruction and, in tail position with a continuation, the
\* block is closed with a Goto that carries the result to the continuation
leaveTraverse(r, f, v) ==
  LET r1 == [r EXCEPT !.pendingPathArgLen = IF f.k # "Path" THEN f.plen ELSE @,
                      !.currentContinuation = f.cont]
      r2 == addInstruction(r1, v)
  IN IF r1.currentBB = NoBlock THEN Res(r1, v)
     ELSE IF f.k = "Tail" /\ f.cont # NoBlock
       THEN Res(createGoto1(r2, f.cont, v), Null)
     ELSE Res(r2, v)

Keep == UNCHANGED <<norm, prog, hist>>

\* the input shows what the expression at a Hole is
Expand ==
  /\ AtOp("Hole")
  /\ \/ \E e \in Leaves :
          /\ stack' = Rest \o <<TraverseFrame(e, Top.k)>>
          /\ prog' = [prog EXCEPT !.shape = Append(@, e)]
     \/ \E e \in Nodes(prog.nfuns) :
          /\ prog.fuel > 0
          /\ stack' = Rest \o <<TraverseFrame(e, Top.k)>>
          /\ prog' = [prog EXCEPT !.fuel = @ - 1, !.shape = Append(@, e)]
     \/ \E e \in NewFuns(prog.nfuns) :
          /\ prog.fuel > 0
          /\ stack' = Rest \o <<TraverseFrame(e, Top.k)>>
          /\ prog' = [prog EXCEPT !.fuel = @ - 1, !.nfuns = @ + 1,
                                   !.shape = Append(@, e)]
  /\ UNCHANGED <<rd, ret, norm, hist>>

TraverseLiteral ==
  /\ AtOp("Literal")
  /\ rd' = enterTraverse(rd, Top.k)
  /\ ret' = Lit(Top.e.v)
  /\ stack' = Rest \o <<EndFrame(rd, Top.k)>>
  /\ Keep

TraverseIdentifier ==
  /\ AtOp("Identifier")
  /\ LET res == reduceIdentifier(enterTraverse(rd, Top.k), Top.e.name)
     IN rd' = res.r /\ ret' = res.v
  /\ stack' = Rest \o <<EndFrame(rd, Top.k)>>
  /\ Keep

\* Function::traverse up to the traversal of the body
TraverseFunction ==
  /\ AtOp("Function")
  /\ LET r1  == enterTraverse(rd, Top.k)
         nvd == Len(r1.vardecls) + 1
     IN rd' = enterScope(newVarDecl(r1, Top.e.name, "Fun", Null), Top.e.name, nvd)
  /\ stack' = Rest \o <<EndFrame(rd, Top.k),
                        [pc |-> "Function.body", name |-> Top.e.name],
                        TraverseFrame(Top.e.body, "Decl")>>
  /\ UNCHANGED ret
  /\ Keep

\* Function::traverse after the body: exitScope and reduceFunction
FunctionBodyDone ==
  /\ At("Function.body")
  /\ rd' = exitScope(rd, Top.name)
  /\ ret' = IF ret.k = "code" THEN FunVal(ret.a, 1)
            ELSE IF ret.k = "fun" THEN FunVal(ret.a, ret.b + 1)
            ELSE FunVal(0, 1)
  /\ stack' = Rest
  /\ Keep

\* CFGReducer::traverseCode outside a CFG, up to the traversal of the body
TraverseCodeTop ==
  /\ AtOp("Code")
  /\ ~rd.currentCFG
  /\ rd' = startCFG(enterTraverse(rd, Top.k))
  /\ stack' = Rest \o <<EndFrame(rd, Top.k), [pc |-> "Code.body"],
                        TraverseFrame(Top.e.body, "Tail")>>
  /\ UNCHANGED ret
  /\ Keep

\* CFGReducer::traverseCode inside a CFG: reduceCode only
TraverseCodeLocal ==
  /\ AtOp("Code")
  /\ rd.currentCFG
  /\ LET res == reduceCode(enterTraverse(rd, Top.k), Top.e.body)
     IN /\ rd' = res.r
        /\ ret' = res.v
        /\ hist' = [hist EXCEPT !.bodies = Append(@, 0)]
  /\ stack' = Rest \o <<EndFrame(rd, Top.k)>>
  /\ UNCHANGED <<norm, prog>>

\* finishCFG without the call of traversePendingBlocks
FinishCFG_NoDrain ==
  /\ At("Code.body")
  /\ rd' = IF ~rd.currentCFG THEN Fatal(rd, "Not inside a CFG.")
           ELSE IF rd.currentBB # NoBlock THEN Fatal(rd, "Never finished the last block.")
           ELSE [rd EXCEPT !.currentContinuation = NoBlock]
  /\ stack' = Rest \o <<[pc |-> "finishCFG.normal"]>>
  /\ UNCHANGED ret
  /\ Keep

\* CFGReducer::finishCFG up to the call of traversePendingBlocks
FinishCFG ==
  /\ At("Code.body")
  /\ rd' = IF ~rd.currentCFG THEN Fatal(rd, "Not inside a CFG.")
           ELSE IF rd.currentBB # NoBlock THEN Fatal(rd, "Never finished the last block.")
           ELSE [rd EXCEPT !.currentContinuation = NoBlock]
  /\ stack' = Rest \o <<[pc |-> "finishCFG.normal"], [pc |-> "drain"]>>
  /\ UNCHANGED ret
  /\ Keep

\* CFGReducer::traversePendingBlocks, the loop condition fails
DrainEmpty ==
  /\ At("drain")
  /\ rd.pendingBlockQueue = <<>>
  /\ stack' = Rest
  /\ UNCHANGED <<rd, ret>>
  /\ Keep

\* traversePendingBlocks without the test of the processed flag
drainSkips_NoProcessedTest(r, pi) == r.pendingBlocks[pi].continuation = NoBlock

\* traversePendingBlocks: the entry is skipped
drainSkips(r, pi) ==
  r.pendingBlocks[pi].continuation = NoBlock \/ r.pendingBlocks[pi].processed

\* traversePendingBlocks, one turn of the loop that skips the entry
DrainSkip ==
  /\ At("drain")
  /\ rd.pendingBlockQueue # <<>>
  /\ drainSkips(rd, Head(rd.pendingBlockQueue))
  /\ rd' = [rd EXCEPT !.pendingBlockQueue = Tail(@)]
  /\ UNCHANGED <<stack, ret>>
  /\ Keep

\* traversePendingBlocks, one turn of the loop up to the traversal of the
\* body: the scope of the pending block is moved into the reducer
DrainStart ==
  /\ At("drain")
  /\ rd.pendingBlockQueue # <<>>
  /\ LET pi == Head(rd.pendingBlockQueue)
         pb == rd.pendingBlocks[pi]
         r1 == [rd EXCEPT !.pendingBlockQueue = Tail(@),
                          !.varCtx = pb.ctx,
                          !.varCtxNull = pb.ctxNull,
                          !.pendingBlocks[pi].ctx = <<>>,
                          !.pendingBlocks[pi].ctxNull = TRUE,
                          !.currentContinuation = pb.continuation]
     IN /\ ~drainSkips(rd, pi)
        /\ rd' = startBlock(r1, pb.block)
        /\ stack' = stack \o <<[pc |-> "drain.end", pi |-> pi],
                               TraverseFrame(pb.expr, "Tail")>>
        /\ hist' = [hist EXCEPT !.bodies[pi] = @ + 1]
  /\ UNCHANGED <<ret, norm, prog>>

\* traversePendingBlocks, the rest of the turn without the mark
DrainEnd_NoMark ==
  /\ At("drain.end")
  /\ rd' = [rd EXCEPT !.currentContinuation = NoBlock,
                      !.varCtx = <<>>,
                      !.varCtxNull = TRUE]
  /\ stack' = Rest
  /\ UNCHANGED ret
  /\ Keep

\* traversePendingBlocks, the rest of the turn
DrainEnd ==
  /\ At("drain.end")
  /\ rd' = [rd EXCEPT !.currentContinuation = NoBlock,
                      !.varCtx = <<>>,
                      !.varCtxNull = TRUE,
                      !.pendingBlocks[Top.pi].processed = TRUE]
  /\ stack' = Rest
  /\ UNCHANGED ret
  /\ Keep

\* Let::traverse up to the traversal of the definition (VarDecl::traverse)
TraverseLet ==
  /\ AtOp("Let")
  /\ LET r1  == enterTraverse(rd, Top.k)
         nvd == Len(r1.vardecls) + 1
     IN IF Top.e.kind = "Letrec"
          THEN /\ rd' = enterScope(newVarDecl(r1, Top.e.name, "Letrec", Null),
                                   Top.e.name, nvd)
               /\ stack' = Rest \o <<EndFrame(rd, Top.k),
                                     [pc |-> "VarDecl.def", name |-> Top.e.name,
                                      kind |-> "Letrec", nvd |-> nvd, body |-> Top.e.body],
                                     TraverseFrame(Top.e.def, "Decl")>>
          ELSE /\ rd' = r1
               /\ stack' = Rest \o <<EndFrame(rd, Top.k),
                                     [pc |-> "VarDecl.def", name |-> Top.e.name,
                                      kind |-> "Let", nvd |-> NoDecl, body |-> Top.e.body],
                                     TraverseFrame(Top.e.def, "Decl")>>
  /\ UNCHANGED ret
  /\ Keep

\* Let::traverse from the reduced definition to the traversal of the body
LetDefDone ==
  /\ At("VarDecl.def")
  /\ LET nvd == IF Top.kind = "Letrec" THEN Top.nvd ELSE Len(rd.vardecls) + 1
         r1  == IF Top.kind = "Letrec"
                  THEN LET r0 == exitScope(rd, Top.name)
                       IN IF r0.fatal # NoFatal THEN r0
                          ELSE [r0 EXCEPT !.vardecls[nvd].def = ret]
                  ELSE newVarDecl(rd, Top.name, "Let", ret)
     IN rd' = IF r1.fatal # NoFatal THEN r1 ELSE enterScope(r1, Top.name, nvd)
  /\ stack' = Rest \o <<[pc |-> "Let.body", name |-> Top.name],
                        TraverseFrame(Top.body, "Tail")>>
  /\ UNCHANGED ret
  /\ Keep

\* Let::traverse after the body: exitScope and CFGReducer::reduceLet
LetBodyDone ==
  /\ At("Let.body")
  /\ rd' = exitScope(rd, Top.name)
  /\ ret' = IF rd.currentCFG THEN ret ELSE [k |-> "let", a |-> 0, b |-> 0]
  /\ stack' = Rest
  /\ Keep

\* Call::traverse up to the traversal of the target
TraverseCall ==
  /\ AtOp("Call")
  /\ rd' = enterTraverse(rd, Top.k)
  /\ stack' = Rest \o <<EndFrame(rd, Top.k), [pc |-> "Call.target"],
                        TraverseFrame(Top.e.target, "Path")>>
  /\ UNCHANGED ret
  /\ Keep

\* the block a call of reduceCall adopts as continuation
adopted(r) ==
  IF r.currentContinuation # NoBlock THEN r.currentContinuation ELSE addBlockResult(r)

\* Call::traverse after the target: CFGReducer::reduceCall
CallTargetDone ==
  /\ At("Call.target")
  /\ LET res   == reduceCall(rd, ret)
         local == ret.k = "code" /\ ret.a # 0
         call  == [pi |-> rd.codeMap[ret.a], cont |-> adopted(rd),
                   fresh |-> rd.currentContinuation = NoBlock, from |-> rd.currentBB]
     IN /\ rd' = res.r
        /\ ret' = res.v
        /\ hist' = IF ~local THEN hist
                   ELSE IF res.r.fatal = NoFatal
                     THEN [hist EXCEPT !.calls = Append(@, call)]
                   ELSE [hist EXCEPT !.failed = [r |-> rd, pi |-> call.pi, cont |-> call.cont]]
  /\ stack' = Rest
  /\ UNCHANGED <<norm, prog>>

\* Apply::traverse up to the traversal of the function
TraverseApply ==
  /\ AtOp("Apply")
  /\ rd' = enterTraverse(rd, Top.k)
  /\ stack' = Rest \o <<EndFrame(rd, Top.k), [pc |-> "Apply.fun", arg |-> Top.e.arg],
                        TraverseFrame(Top.e.fun, "Path")>>
  /\ UNCHANGED ret
  /\ Keep

\* Apply::traverse from the reduced function to the traversal of the argument
ApplyFunDone ==
  /\ At("Apply.fun")
  /\ stack' = Rest \o <<[pc |-> "Apply.arg", nf |-> ret], TraverseFrame(Top.arg, "Arg")>>
  /\ UNCHANGED <<rd, ret>>
  /\ Keep

\* Apply::traverse after the argument: CFGReducer::reduceApply
ApplyArgDone ==
  /\ At("Apply.arg")
  /\ LET res == reduceApply(rd, Top.nf, ret)
     IN rd' = res.r /\ ret' = res.v
  /\ stack' = Rest
  /\ Keep

\* BinaryOp::traverse up to the traversal of the first operand
TraverseBinaryOp ==
  /\ AtOp("BinaryOp")
  /\ rd' = enterTraverse(rd, Top.k)
  /\ stack' = Rest \o <<EndFrame(rd, Top.k), [pc |-> "BinaryOp.e0", e1 |-> Top.e.e1],
                        TraverseFrame(Top.e.e0, "Arg")>>
  /\ UNCHANGED ret
  /\ Keep

\* BinaryOp::traverse from the first operand to the second
BinaryOpLeftDone ==
  /\ At("BinaryOp.e0")
  /\ stack' = Rest \o <<[pc |-> "BinaryOp.e1"], TraverseFrame(Top.e1, "Arg")>>
  /\ UNCHANGED <<rd, ret>>
  /\ Keep

\* BinaryOp::traverse after the second operand: CopyReducer::reduceBinaryOp
\* builds a new instruction that is in no block yet
BinaryOpRightDone ==
  /\ At("BinaryOp.e1")
  /\ rd' = [rd EXCEPT !.instrs = Append(@, NoBlock)]
  /\ ret' = Instr(Len(rd.instrs) + 1)
  /\ stack' = Rest
  /\ Keep

\* CFGReducer::traverseIfThenElse in a block, up to the traversal of the
\* condition
TraverseIfThenElse ==
  /\ AtOp("IfThenElse")
  /\ rd.currentBB # NoBlock
  /\ rd' = enterTraverse(rd, Top.k)
  /\ stack' = Rest \o <<EndFrame(rd, Top.k),
                        [pc |-> "If.cond", thenE |-> Top.e.thenE, elseE |-> Top.e.elseE],
                        TraverseFrame(Top.e.cond, "Arg")>>
  /\ UNCHANGED ret
  /\ Keep

\* traverseIfThenElse from the reduced condition to the traversal of the
\* then-expression
IfCondDone ==
  /\ At("If.cond")
  /\ LET r1       == createBranch(rd, ret)
         tb       == Len(rd.blocks) + 1
         eb       == Len(rd.blocks) + 2
         currCont == rd.currentContinuation
         cont     == IF currCont # NoBlock THEN currCont ELSE addBlockResult(r1)
         r2       == IF currCont # NoBlock THEN r1 ELSE addBlock(r1, 1)
         r3       == startBlock(r2, tb)
     IN /\ rd' = IF r1.fatal # NoFatal THEN r1
                 ELSE IF r3.fatal # NoFatal THEN r3
                 ELSE [r3 EXCEPT !.currentContinuation = cont]
        /\ stack' = Rest \o <<[pc |-> "If.then", elseE |-> Top.elseE, eb |-> eb,
                               cont |-> cont, currCont |-> currCont],
                              TraverseFrame(Top.thenE, "Tail")>>
  /\ UNCHANGED ret
  /\ Keep

\* traverseIfThenElse from the then-expression to the traversal of the
\* else-expression
IfThenDone ==
  /\ At("If.then")
  /\ LET r1 == startBlock(rd, Top.eb)
     IN rd' = IF r1.fatal # NoFatal THEN r1
              ELSE [r1 EXCEPT !.currentContinuation = Top.cont]
  /\ stack' = Rest \o <<[pc |-> "If.else", cont |-> Top.cont, currCont |-> Top.currCont],
                        TraverseFrame(Top.elseE, "Tail")>>
  /\ UNCHANGED ret
  /\ Keep

\* traverseIfThenElse after the else-expression, without the restoring of
\* the continuation
IfElseDone_KeepsContinuation ==
  /\ At("If.else")
  /\ LET r2 == startBlock(rd, Top.cont)
     IN IF Top.currCont # NoBlock
          THEN rd' = rd /\ ret' = Null
          ELSE /\ rd' = IF r2.fatal # NoFatal THEN r2
                        ELSE IF Len(r2.blocks[Top.cont].args) = 0
                          THEN Fatal(r2, "cont->arguments().size() > 0")
                        ELSE r2
               /\ ret' = PhiRef(Top.cont, 1)
  /\ stack' = Rest
  /\ Keep

\* traverseIfThenElse after the else-expression
IfElseDone ==
  /\ At("If.else")
  /\ LET r1 == [rd EXCEPT !.currentContinuation = Top.currCont]
         r2 == startBlock(r1, Top.cont)
     IN IF Top.currCont # NoBlock
          THEN rd' = r1 /\ ret' = Null
          ELSE /\ rd' = IF r2.fatal # NoFatal THEN r2
                        ELSE IF Len(r2.blocks[Top.cont].args) = 0
                          THEN Fatal(r2, "cont->arguments().size() > 0")
                        ELSE r2
               /\ ret' = PhiRef(Top.cont, 1)
  /\ stack' = Rest
  /\ Keep

\* CFGReducer::traverse, after the visit
EndTraverse ==
  /\ At("traverse.end")
  /\ LET res == leaveTraverse(rd, Top, ret)
     IN rd' = res.r /\ ret' = res.v
  /\ stack' = Rest
  /\ Keep

\* SCFG::computeNormalForm, called by finishCFG
Normalize ==
  /\ At("finishCFG.normal")
  /\ rd' \in NormalForms(rd)
  /\ stack' = Rest \o <<[pc |-> "finishCFG.ssa"]>>
  /\ UNCHANGED ret
  /\ Keep

\* the rest of finishCFG (SSAPass::ssaTransform, leaving the CFG) and the
\* reduceCode of traverseCode
LeaveCFG ==
  /\ At("finishCFG.ssa")
  /\ LET res == reduceCode([rd EXCEPT !.currentCFG = FALSE, !.currentBB = NoBlock], Null)
     IN rd' = res.r /\ ret' = res.v
  /\ stack' = Rest
  /\ Keep

\* CFGReducer::lower on a function body whose expression is still to be read
Init ==
  /\ rd = NewReducer
  /\ stack = <<TraverseFrame(Code(Hole), "Tail")>>
  /\ ret = Null
  /\ norm = [stage |-> "none"]
  /\ prog = [fuel |-> MaxNodes, nfuns |-> 0, shape |-> <<>>]
  /\ hist = NoHist

Next ==
  \/ Expand
  \/ TraverseLiteral
  \/ TraverseIdentifier
  \/ TraverseFunction
  \/ FunctionBodyDone
  \/ TraverseCodeTop
  \/ TraverseCodeLocal
  \/ FinishCFG
  \/ DrainEmpty
  \/ DrainSkip
  \/ DrainStart
  \/ DrainEnd
  \/ TraverseLet
  \/ LetDefDone
  \/ LetBodyDone
  \/ TraverseCall
  \/ CallTargetDone
  \/ TraverseApply
  \/ ApplyFunDone
  \/ ApplyArgDone
  \/ TraverseBinaryOp
  \/ BinaryOpLeftDone
  \/ BinaryOpRightDone
  \/ TraverseIfThenElse
  \/ IfCondDone
  \/ IfThenDone
  \/ IfElseDone
  \/ EndTraverse
  \/ Normalize
  \/ LeaveCFG

Spec == Init /\ [][Next]_vars

\* CFGReducer::lower run to its end: the reducer is one thread that goes on
\* while it can, so a step that stays possible is taken.  The step out of
\* computeNormalForm is named by its effect on the stack.
LiveInit ==
  /\ rd = NewReducer
  /\ stack = <<TraverseFrame(Code(Hole), "Tail")>>
  /\ ret = Null
  /\ norm = [stage |-> "none"]
  /\ prog = [fuel |-> MaxLiveNodes, nfuns |-> 0, shape |-> <<>>]
  /\ hist = NoHist

SpecLive ==
  /\ LiveInit
  /\ [][Next]_vars
  /\ WF_vars(~At("finishCFG.normal") /\ Next)
  /\ WF_stack(At("finishCFG.normal") /\ stack' = Rest \o <<[pc |-> "finishCFG.ssa"]>>)

-----------------------------------------------------------------------------
(* A top-level function with a parameter: \p. Code(..), where the body     *)
(* binds local functions by let or by letrec and calls them with p.        *)

\* (\x. Code(body))(a): a function literal that is called where it stands
CallLiteral(body, a) == Call(Apply(Function(NameX, Code(body)), a))

\* what a Hole of the body can turn out to be: the leaf p, a call f(p) of a
\* local function bound so far, a called literal, or let f(x) = .. ; ..
\* (Let or Letrec)
FunLeaves == {Identifier(NameP)}
FunCalls(nfuns) ==
  {CallFun(FunName(i), Identifier(NameP)) : i \in 1..nfuns}
    \cup {CallLiteral(Hole, Identifier(NameP))}
FunLets(nfuns) ==
  IF nfuns < MaxFuns
    THEN {LetFun(FunName(nfuns + 1), kind, Hole, Hole) : kind \in {"Let", "Letrec"}}
    ELSE {}

\* the input shows what the expression at a Hole is
ExpandFun ==
  /\ AtOp("Hole")
  /\ \/ \E e \in FunLeaves :
          /\ stack' = Rest \o <<TraverseFrame(e, Top.k)>>
          /\ prog' = [prog EXCEPT !.shape = Append(@, e)]
     \/ \E e \in FunCalls(prog.nfuns) :
          /\ prog.fuel > 0
          /\ stack' = Rest \o <<TraverseFrame(e, Top.k)>>
          /\ prog' = [prog EXCEPT !.fuel = @ - 1, !.shape = Append(@, e)]
     \/ \E e \in FunLets(prog.nfuns) :
          /\ prog.fuel > 0
          /\ stack' = Rest \o <<TraverseFrame(e, Top.k)>>
          /\ prog' = [prog EXCEPT !.fuel = @ - 1, !.nfuns = @ + 1,
                                   !.shape = Append(@, e)]
  /\ UNCHANGED <<rd, ret, norm, hist>>

\* CFGReducer::lower on \p. Code(..)
FunInit ==
  /\ rd = NewReducer
  /\ stack = <<TraverseFrame(Function(NameP, Code(Hole)), "Tail")>>
  /\ ret = Null
  /\ norm = [stage |-> "none"]
  /\ prog = [fuel |-> MaxFunNodes, nfuns |-> 0, shape |-> <<>>]
  /\ hist = NoHist

FunNext ==
  \/ ExpandFun
  \/ TraverseIdentifier
  \/ TraverseFunction
  \/ FunctionBodyDone
  \/ TraverseCodeTop
  \/ TraverseCodeLocal
  \/ FinishCFG
  \/ DrainEmpty
  \/ DrainSkip
  \/ DrainStart
  \/ DrainEnd
  \/ TraverseLet
  \/ LetDefDone
  \/ LetBodyDone
  \/ TraverseCall
  \/ CallTargetDone
  \/ TraverseApply
  \/ ApplyFunDone
  \/ ApplyArgDone
  \/ EndTraverse
  \/ Normalize
  \/ LeaveCFG

SpecFun == FunInit /\ [][FunNext]_vars

-----------------------------------------------------------------------------
(* Expressions without local functions: the leaves x and y, let y = ..,    *)
(* if x <= 0 then .. else .. and the function \x. .. , below one Code.     *)

ExprLeaves == {Identifier(NameX), Identifier(NameY)}
ExprNodes ==
  {IfThenElse(XLeqZero, Hole, Hole), Let(NameY, "Let", Hole, Hole), Function(NameX, Hole)}

\* the input shows what the expression at a Hole is
ExpandExpr ==
  /\ AtOp("Hole")
  /\ \/ \E e \in ExprLeaves :
          /\ stack' = Rest \o <<TraverseFrame(e, Top.k)>>
          /\ prog' = [prog EXCEPT !.shape = Append(@, e)]
     \/ \E e \in ExprNodes :
          /\ prog.fuel > 0
          /\ stack' = Rest \o <<TraverseFrame(e, Top.k)>>
          /\ prog' = [prog EXCEPT !.fuel = @ - 1, !.shape = Append(@, e)]
  /\ UNCHANGED <<rd, ret, norm, hist>>

ExprInit ==
  /\ rd = NewReducer
  /\ stack = <<TraverseFrame(Code(Hole), "Tail")>>
  /\ ret = Null
  /\ norm = [stage |-> "none"]
  /\ prog = [fuel |-> MaxExprNodes, nfuns |-> 0, shape |-> <<>>]
  /\ hist = NoHist

ExprNext ==
  \/ ExpandExpr
  \/ TraverseLiteral
  \/ TraverseIdentifier
  \/ TraverseFunction
  \/ FunctionBodyDone
  \/ TraverseCodeTop
  \/ FinishCFG
  \/ DrainEmpty
  \/ TraverseLet
  \/ LetDefDone
  \/ LetBodyDone
  \/ TraverseBinaryOp
  \/ BinaryOpLeftDone
  \/ BinaryOpRightDone
  \/ TraverseIfThenElse
  \/ IfCondDone
  \/ IfThenDone
  \/ IfElseDone
  \/ EndTraverse
  \/ Normalize
  \/ LeaveCFG

SpecExpr == ExprInit /\ [][ExprNext]_vars

-----------------------------------------------------------------------------
(* The scope-level specification: a client inside a CFG declares          *)
(* variables and calls enterScope, exitScope, VarContext::lookup and      *)
(* reduceIdentifier.  Every enterScope gets a declaration of its own      *)
(* (orig and its copy nv have the same name); hist.open lists the         *)
(* declarations whose scope was entered and not left, hist.last is the    *)
(* last call with the scope stack it found.                               *)

ScopeNames == {NoName, NameX, NameY}
ScopeKinds == {"Fun", "Let", "Letrec"}
NoScopeCall == [op |-> "none", d |-> NoDecl, name |-> NoName, ctx |-> <<>>, vd |-> NoDecl]

ScopeInit ==
  /\ rd = startCFG(NewReducer)
  /\ stack = <<>>
  /\ ret = Null
  /\ norm = [stage |-> "none"]
  /\ prog = NoInput
  /\ hist = [open |-> <<>>, last |-> NoScopeCall, before |-> startCFG(NewReducer)]

ScopeFrame == UNCHANGED <<stack, norm, prog>>
ScopeCall(op, d, name, vd) ==
  [op |-> op, d |-> d, name |-> name, ctx |-> rd.varCtx, vd |-> vd]

\* enterScope(orig, nv) for a new declaration
SEnterScope ==
  /\ rd.fatal = NoFatal
  /\ Len(rd.vardecls) < MaxDecls
  /\ \E name \in ScopeNames, kind \in ScopeKinds :
       LET nvd == Len(rd.vardecls) + 1
           r1  == newVarDecl(rd, name, kind, IF kind = "Fun" THEN Null ELSE Lit(10 * nvd))
       IN /\ rd' = enterScope(r1, name, nvd)
          /\ hist' = [open |-> Append(hist.open, nvd),
                      last |-> ScopeCall("enter", nvd, name, NoDecl), before |-> rd]
  /\ UNCHANGED ret
  /\ ScopeFrame

\* exitScope(orig) for a declaration whose scope is open, the innermost or
\* not, while the scope stack is not empty
SExitScope ==
  /\ rd.fatal = NoFatal
  /\ rd.varCtx # <<>>
  /\ \E i \in 1..Len(hist.open) :
       LET d == hist.open[i]
       IN /\ rd' = exitScope(rd, rd.vardecls[d].name)
          /\ hist' = [open |-> SubSeq(hist.open, 1, i - 1)
                                 \o SubSeq(hist.open, i + 1, Len(hist.open)),
                      last |-> ScopeCall("exit", d, rd.vardecls[d].name, NoDecl),
                      before |-> rd]
  /\ UNCHANGED ret
  /\ ScopeFrame

\* VarContext::lookup(name)
SLookup ==
  /\ rd.fatal = NoFatal
  /\ \E name \in ScopeNames \ {NoName} :
       hist' = [hist EXCEPT !.last = ScopeCall("lookup", NoDecl, name, lookup(rd, name)),
                            !.before = rd]
  /\ UNCHANGED <<rd, ret>>
  /\ ScopeFrame

\* reduceIdentifier(orig)
SReduceIdentifier ==
  /\ rd.fatal = NoFatal
  /\ \E name \in ScopeNames \ {NoName} :
       LET res == reduceIdentifier(rd, name)
       IN /\ rd' = res.r
          /\ ret' = res.v
          /\ hist' = [hist EXCEPT !.last = ScopeCall("reduceIdentifier", NoDecl, name, NoDecl),
                                  !.before = rd]
  /\ ScopeFrame

ScopeNext ==
  \/ SEnterScope
  \/ SExitScope
  \/ SLookup
  \/ SReduceIdentifier

SpecScope == ScopeInit /\ [][ScopeNext]_vars

-----------------------------------------------------------------------------
(* DiagnosticEmitter.  rd.ss is what has been written to the std::ostream  *)
(* of the emitter's DiagnosticStream, a sequence of pieces of text in      *)
(* which a newline is a piece of its own; rd.alive says that the emitter   *)
(* has not been destroyed.  hist is the log of the calls: the operation    *)
(* and the length of rd.ss when the call began and when it returned.       *)

Newline == "\n"
DiagMsgs == {"m1", "m2"}
\* the DiagnosticStream& that error and warning return: the member dstream_
DStreamRef == [k |-> "dstream_", a |-> 0, b |-> 0]

\* DiagnosticEmitter::DiagnosticEmitter: dstream_ wraps std::cerr
NewDiagnosticEmitter == [ss |-> <<>>, alive |-> TRUE, fatal |-> NoFatal]

\* std::ostream << const char*: a newline is a piece of its own
write(e, text) == [e EXCEPT !.ss = Append(@, text)]

\* DiagnosticStream::operator<<(const char*)
streamText(e, msg) == write(e, msg)

\* DiagnosticStream::operator<<(bool)
streamBool(e, b) == IF b THEN write(e, "true") ELSE write(e, "false")

\* DiagnosticStream::~DiagnosticStream
destroyStream(e) == write(e, Newline)

\* DiagnosticEmitter::error: dstream_ << "\nerror: " << msg
error(e, msg) == streamText(streamText(write(e, Newline), "error: "), msg)

\* DiagnosticEmitter::warning: dstream_ << "\nwarning: " << msg
warning(e, msg) == streamText(streamText(write(e, Newline), "warning: "), msg)

DiagInit ==
  /\ rd = NewDiagnosticEmitter
  /\ stack = <<>>
  /\ ret = Null
  /\ norm = [stage |-> "none"]
  /\ prog = NoInput
  /\ hist = <<>>

DiagFrame == UNCHANGED <<stack, norm, prog>>
DiagCall(op, e) == [op |-> op, from |-> Len(rd.ss), to |-> Len(e.ss)]
CanCall == rd.alive /\ Len(hist) < MaxDiagCalls

\* a client calls error(msg)
DError ==
  /\ CanCall
  /\ \E msg \in DiagMsgs :
       /\ rd' = error(rd, msg)
       /\ hist' = Append(hist, DiagCall("report", error(rd, msg)))
  /\ ret' = DStreamRef
  /\ DiagFrame

\* a client calls warning(msg)
DWarning ==
  /\ CanCall
  /\ \E msg \in DiagMsgs :
       /\ rd' = warning(rd, msg)
       /\ hist' = Append(hist, DiagCall("report", warning(rd, msg)))
  /\ ret' = DStreamRef
  /\ DiagFrame

\* a client goes on writing to the stream it got back: error(m) << text
DStreamText ==
  /\ CanCall
  /\ ret = DStreamRef
  /\ \E msg \in DiagMsgs :
       /\ rd' = streamText(rd, msg)
       /\ hist' = Append(hist, DiagCall("more", streamText(rd, msg)))
  /\ UNCHANGED ret
  /\ DiagFrame

\* error(m) << b
DStreamBool ==
  /\ CanCall
  /\ ret = DStreamRef
  /\ \E b \in BOOLEAN :
       /\ rd' = streamBool(rd, b)
       /\ hist' = Append(hist, DiagCall("more", streamBool(rd, b)))
  /\ UNCHANGED ret
  /\ DiagFrame

\* the emitter is destroyed, and its member dstream_ with it
DDestroy ==
  /\ rd.alive
  /\ rd' = [destroyStream(rd) EXCEPT !.alive = FALSE]
  /\ hist' = Append(hist, DiagCall("destroy", destroyStream(rd)))
  /\ ret' = Null
  /\ DiagFrame

DiagNext ==
  \/ DError
  \/ DWarning
  \/ DStreamText
  \/ DStreamBool
  \/ DDestroy

SpecDiag == DiagInit /\ [][DiagNext]_vars

-----------------------------------------------------------------------------
(* Properties of the diagnostics *)

Reports == {i \in 1..Len(hist) : hist[i].op = "report"}

\* C20: when error(msg) or warning(msg) returns, the text it wrote ends
\* with a newline, and so the text of a report is terminated before the
\* text of the next report begins.
C20_LineTerminated ==
  \A i \in Reports : rd.ss[hist[i].to] = Newline

\* what the emitter does instead: every report begins with a newline and
\* ends with the message; the line of the last report is open until the
\* next report or the destruction of the emitter
C20_LineStarted ==
  \A i \in Reports :
    /\ hist[i].to = hist[i].from + 3
    /\ rd.ss[hist[i].from + 1] = Newline
    /\ rd.ss[hist[i].from + 2] \in {"error: ", "warning: "}
    /\ rd.ss[hist[i].to] \in DiagMsgs

\* two reports and the destruction of the emitter
C20_Witness ==
  /\ ~rd.alive
  /\ Cardinality(Reports) = 2
  /\ rd.ss[Len(rd.ss)] = Newline

-----------------------------------------------------------------------------
(* Properties of the scope stack *)

\* the entry of ctx pushed last among those with that name
Innermost(ctx, name) ==
  LET hits == {i \in 1..Len(ctx) : rd.vardecls[ctx[i]].name = name}
  IN IF hits = {} THEN NoDecl
     ELSE ctx[CHOOSE i \in hits : \A j \in hits : i >= j]

\* C16: lookup(name) returns the declaration with that name that was pushed
\* last among those not popped, null when there is none; it does not fail
\* and changes nothing.
C16_LookupInnermost ==
  hist.last.op = "lookup" =>
    /\ rd.fatal = NoFatal
    /\ rd = hist.before
    /\ hist.last.vd = Innermost(rd.varCtx, hist.last.name)

\* a lookup of a name that is declared twice, and the inner declaration is
\* found
C16_Witness ==
  /\ hist.last.op = "lookup"
  /\ Len(rd.varCtx) = 2
  /\ rd.vardecls[rd.varCtx[1]].name = hist.last.name
  /\ rd.vardecls[rd.varCtx[2]].name = hist.last.name
  /\ hist.last.vd = rd.varCtx[2]

TopDecl(ctx) == IF ctx = <<>> THEN NoDecl ELSE ctx[Len(ctx)]
WithoutTop(ctx) == SubSeq(ctx, 1, Len(ctx) - 1)

\* C17 as stated: exitScope for a declaration that is not the one on top of
\* the scope stack is fatal, and an exitScope that does not fail removes
\* the top entry.
C17_ExitOrderEnforced ==
  hist.last.op = "exit" =>
    /\ hist.last.d # TopDecl(hist.last.ctx) => rd.fatal # NoFatal
    /\ rd.fatal = NoFatal => rd.varCtx = WithoutTop(hist.last.ctx)

\* C17 by names: exitScope for an unnamed declaration does nothing; for a
\* named one it fails with "Variable mismatch", the stack untouched, when
\* the declaration on top has another name, and otherwise removes the top
\* entry and nothing else, whichever declaration that is.
C17_ExitByName ==
  hist.last.op = "exit" =>
    IF hist.last.name = NoName THEN rd = hist.before
    ELSE IF rd.vardecls[TopDecl(hist.last.ctx)].name # hist.last.name
      THEN rd = Fatal(hist.before, "Variable mismatch")
    ELSE rd = [hist.before EXCEPT !.varCtx = WithoutTop(hist.last.ctx)]

\* the scope of a declaration is left while a declaration with another
\* name is on top: the assertion fails
C17_Witness ==
  /\ hist.last.op = "exit"
  /\ hist.last.name # NoName
  /\ hist.last.d # TopDecl(hist.last.ctx)
  /\ hist.last.d \in {hist.last.ctx[i] : i \in 1..Len(hist.last.ctx)}
  /\ rd.fatal = "Variable mismatch"

\* the scope of a declaration is left while another declaration with the
\* same name is on top: that one is removed
C17_Shadowed ==
  /\ hist.last.op = "exit"
  /\ hist.last.d # TopDecl(hist.last.ctx)
  /\ hist.last.d \in {rd.varCtx[i] : i \in 1..Len(rd.varCtx)}
  /\ rd.fatal = NoFatal

\* C19: reduceIdentifier never fails and changes nothing in the reducer
\* (scope stack, current block, continuation, queue of pending blocks).
\* For a name without declaration on the scope stack it returns an
\* unresolved identifier with that name, for a name whose innermost
\* declaration is a Let or a Letrec the definition of that declaration, and
\* for a function parameter a variable that refers to the declaration.
C19_ReduceIdentifier ==
  hist.last.op = "reduceIdentifier" =>
    LET vd == Innermost(rd.varCtx, hist.last.name)
    IN /\ rd = hist.before
       /\ rd.fatal = NoFatal
       /\ vd = NoDecl => ret = Unresolved(hist.last.name)
       /\ vd # NoDecl /\ rd.vardecls[vd].kind \in {"Let", "Letrec"} =>
            ret = rd.vardecls[vd].def
       /\ vd # NoDecl /\ rd.vardecls[vd].kind = "Fun" => ret = VarRef(vd)

\* an identifier that is not declared is reduced while other names are
C19_Witness ==
  /\ hist.last.op = "reduceIdentifier"
  /\ rd.varCtx # <<>>
  /\ Innermost(rd.varCtx, hist.last.name) = NoDecl
  /\ ret = Unresolved(hist.last.name)
  /\ rd.currentBB = rd.entry /\ rd.currentContinuation = rd.exit

-----------------------------------------------------------------------------
(* Properties of the translation *)

PendingIds == 1..Len(rd.pendingBlocks)
CallsTo(pi) == {i \in 1..Len(hist.calls) : hist.calls[i].pi = pi}
InStack(pc) == \E i \in 1..Len(stack) : stack[i].pc = pc

\* C4: the continuation of a PendingBlock is write-once.  It is null when
\* the PendingBlock is created; the step that sets it is the first call of
\* that local function, and it is set to the continuation that call adopts;
\* once set, no step (a further call, the drain, a failed call) changes it.
C4_ContinuationWriteOnce ==
  [][/\ \A pi \in PendingIds :
          LET c  == rd.pendingBlocks[pi].continuation
              c1 == rd'.pendingBlocks[pi].continuation
          IN /\ c # NoBlock => c1 = c
             /\ c = NoBlock /\ c1 # NoBlock =>
                  /\ CallsTo(pi) = {}
                  /\ Len(hist'.calls) = Len(hist.calls) + 1
                  /\ hist'.calls[Len(hist'.calls)].pi = pi
                  /\ hist'.calls[Len(hist'.calls)].cont = c1
     /\ \A pi \in (1..Len(rd'.pendingBlocks)) \ PendingIds :
          rd'.pendingBlocks[pi].continuation = NoBlock]_vars

\* a local function was called twice, once from its own body, and has been
\* translated; its continuation is the one the first call set
C4_Witness ==
  \E pi \in PendingIds :
    /\ Cardinality(CallsTo(pi)) >= 2
    /\ rd.pendingBlocks[pi].processed
    /\ rd.pendingBlocks[pi].continuation # NoBlock
    /\ ~InStack("drain")
    /\ rd.fatal = NoFatal

\* C5: a call of a local function whose adopted continuation differs from
\* the one recorded for that function is fatal, and the failed call emits no
\* Goto: the block it was made in is still open, without terminator, and the
\* target block, the queue and the recorded continuation are as before.
\* Hence all calls that went through adopted the recorded continuation.
C5_MismatchIsFatal ==
  /\ \A i \in 1..Len(hist.calls) :
       rd.pendingBlocks[hist.calls[i].pi].continuation = hist.calls[i].cont
  /\ rd.fatal = "Cannot transform to tail call!" =>
       LET pre == hist.failed.r
           pb  == pre.pendingBlocks[hist.failed.pi]
       IN /\ pb.continuation # NoBlock
          /\ pb.continuation # hist.failed.cont
          /\ rd.pendingBlocks = pre.pendingBlocks
          /\ rd.pendingBlockQueue = pre.pendingBlockQueue
          /\ rd.currentBB = pre.currentBB
          /\ rd.currentBB # NoBlock
          /\ rd.blocks[rd.currentBB].term = NoTerm
          /\ rd.blocks[pb.block] = pre.blocks[pb.block]

\* two calls of one local function, neither in tail position: each
\* allocates a join block of its own, and the second call has failed
C5_Witness ==
  /\ rd.fatal = "Cannot transform to tail call!"
  /\ hist.failed.r.currentContinuation = NoBlock
  /\ \E i \in CallsTo(hist.failed.pi) : hist.calls[i].fresh

\* C6: the body of a function literal reduced inside a CFG is not
\* translated on the spot.  Until the drain starts on it, its PendingBlock
\* is unprocessed, its body has not been read, and its target block holds
\* no instruction and no terminator; a PendingBlock that was never called
\* has a null continuation.  Bodies are translated only by the drain, that
\* is after the top-level body of the CFG is finished.
C6_BodyDeferred ==
  /\ Len(hist.bodies) = Len(rd.pendingBlocks)
  /\ \A pi \in PendingIds :
       LET pb == rd.pendingBlocks[pi]
       IN /\ hist.bodies[pi] = 0 =>
               /\ ~pb.processed
               /\ pb.expr = Hole
               /\ rd.blocks[pb.block].instrs = <<>>
               /\ rd.blocks[pb.block].term = NoTerm
               /\ rd.currentBB # pb.block
               /\ (CallsTo(pi) = {} => pb.continuation = NoBlock)
          /\ hist.bodies[pi] > 0 =>
               /\ ~InStack("Code.body")
               /\ InStack("drain") \/ pb.processed
  /\ InStack("Code.body") => ~InStack("drain")

\* a local function has been called, the top-level body is still being
\* translated, and the body of the function is untouched
C6_Witness ==
  /\ InStack("Code.body")
  /\ \E pi \in PendingIds :
       /\ CallsTo(pi) # {}
       /\ hist.bodies[pi] = 0
       /\ rd.pendingBlocks[pi].expr = Hole

\* C7: the body of each pending block is translated at most once, however
\* often its index is in the queue; a processed block has been translated
\* exactly once.
C7_BodyAtMostOnce ==
  \A pi \in 1..Len(hist.bodies) :
    /\ hist.bodies[pi] <= 1
    /\ rd.pendingBlocks[pi].processed => hist.bodies[pi] = 1

\* the drain is at a queue entry of a block that is already processed
C7_Witness ==
  /\ At("drain")
  /\ rd.pendingBlockQueue # <<>>
  /\ rd.pendingBlocks[Head(rd.pendingBlockQueue)].processed
  /\ Cardinality(CallsTo(Head(rd.pendingBlockQueue))) >= 2

\* let f(x) = if x <= 0 then x else f(x - 1); f(x - 1), in the order in
\* which the translation reads it
TailRecursion ==
  <<LetFun(FunName(1), "Letrec", Hole, Hole),
    CallFun(FunName(1), XMinusOne),
    IfThenElse(XLeqZero, Hole, Hole),
    Identifier(NameX),
    CallFun(FunName(1), XMinusOne)>>

\* C8: the tail-recursive function called once in tail position gives one
\* pending block whose body is translated once; when the translation is
\* done the target block of f has two predecessors, the block of the call
\* (Entry) and the else-block, and its phi has two operands.
C8_TailRecursionIsLoop ==
  prog.shape = TailRecursion =>
    /\ rd.fatal = NoFatal
    /\ Len(rd.pendingBlocks) = 1
    /\ hist.bodies[1] <= 1
    /\ stack = <<>> =>
         LET fb == rd.pendingBlocks[1].block
             br == rd.blocks[fb].term
         IN /\ hist.bodies = <<1>>
            /\ br.k = "branch"
            /\ rd.blocks[fb].preds = <<rd.entry, br.t2>>
            /\ Len(rd.blocks[fb].args) = 1
            /\ Len(rd.blocks[fb].args[1]) = 2
            /\ rd.blocks[br.t2].term.k = "goto"
            /\ rd.blocks[br.t2].term.t1 = fb

C8_Witness ==
  /\ prog.shape = TailRecursion
  /\ stack = <<>>
  /\ rd.fatal = NoFatal
  /\ rd.pendingBlocks[1].processed

\* C9: for every CFG the reducer builds, both sorts of computeNormalForm
\* reach every block: the assertion NumUnreachableBlocks == 0 holds.
C9_NoUnreachableBlocks == rd.fatal # "NumUnreachableBlocks == 0"

\* where the reducer is with the SCFG of the top-level Code: not started,
\* translating the body, in traversePendingBlocks, before
\* computeNormalForm, before ssaTransform, or out of the CFG again
CFGPhase ==
  IF InStack("Code.body") THEN "body"
  ELSE IF InStack("drain") THEN "drain"
  ELSE IF InStack("finishCFG.normal") THEN "normal"
  ELSE IF InStack("finishCFG.ssa") THEN "ssa"
  ELSE IF rd.blocks = <<>> THEN "none"
  ELSE "left"
PhaseOrder == <<"none", "body", "drain", "normal", "ssa", "left">>

SortState(r) == [b \in 1..Len(r.blocks) |->
                   <<r.blocks[b].Visited, r.blocks[b].BlockID, r.blocks[b].PostBlockID,
                     r.blocks[b].DominatorNode, r.blocks[b].PostDominatorNode>>]

FinishStep ==
  LET p == CFGPhase
      q == CFGPhase'
  IN /\ p # q => \E i \in 1..5 : p = PhaseOrder[i] /\ q = PhaseOrder[i + 1]
     /\ rd.currentCFG # rd'.currentCFG =>
          \/ p = "none" /\ q = "body"
          \/ p = "ssa" /\ q = "left"
     /\ p = "none" /\ q = "body" =>
          rd'.currentCFG /\ rd'.currentBB = rd'.entry /\ rd'.currentContinuation = rd'.exit
     /\ p = "body" /\ q = "drain" =>
          \/ rd'.fatal # NoFatal
          \/ rd.currentBB = NoBlock /\ rd'.currentContinuation = NoBlock
     /\ p = "drain" /\ q = "normal" =>
          rd.pendingBlockQueue = <<>> /\ rd.currentBB = NoBlock /\ rd' = rd
     /\ p = "normal" /\ q = "ssa" => rd' \in NormalForms(rd)
     /\ ~(p = "normal" /\ q = "ssa") =>
          SubSeq(SortState(rd'), 1, Len(rd.blocks)) = SortState(rd)
     /\ p = "ssa" /\ q = "left" =>
          /\ rd'.blocks = rd.blocks /\ rd'.cfgBlocks = rd.cfgBlocks
          /\ ~rd'.currentCFG /\ rd'.currentBB = NoBlock
          /\ ret'.k = "code"
     /\ p = "left" => rd'.blocks = rd.blocks /\ ~rd'.currentCFG

\* C15: for the SCFG the reducer starts, the steps come in this order and
\* each at most once: the body ends with no open block, the queue of
\* pending blocks is drained, computeNormalForm runs (and nothing else
\* touches the sort state of the blocks), ssaTransform is reached, the
\* reducer leaves the CFG with current CFG and current block null and
\* returns the Code node; the SCFG does not change afterwards.  A
\* translation that does not fail gets there.
C15_FinishOrder ==
  /\ [][FinishStep]_vars
  /\ (CFGPhase = "body") ~> (CFGPhase = "left" \/ rd.fatal # NoFatal)

C15_Witness ==
  /\ CFGPhase = "left"
  /\ rd.fatal = NoFatal
  /\ \E i \in 1..Len(rd.pendingBlocks) : rd.pendingBlocks[i].processed
  /\ \A b \in 1..Len(rd.blocks) : rd.blocks[b].cfg => rd.blocks[b].Visited

\* every pending block that a call has given a continuation is processed,
\* and its block has a terminator
Drained ==
  /\ rd.pendingBlockQueue = <<>>
  /\ \A pi \in PendingIds :
       rd.pendingBlocks[pi].continuation # NoBlock =>
         /\ rd.pendingBlocks[pi].processed
         /\ rd.blocks[rd.pendingBlocks[pi].block].term # NoTerm

\* C27: traversePendingBlocks comes to its end unless an assertion stops
\* the reducer, and from then on the queue is empty, every pending block
\* with a continuation is marked processed and its block has a terminator.
C27_DrainTerminates ==
  /\ [](CFGPhase \in {"normal", "ssa", "left"} => Drained)
  /\ (CFGPhase = "drain") ~> (CFGPhase = "normal" \/ rd.fatal # NoFatal)

\* the drain has ended after a turn that translated a body, with a local
\* function that was never called left over
C27_Witness ==
  /\ CFGPhase = "normal"
  /\ rd.fatal = NoFatal
  /\ \E pi \in PendingIds : rd.pendingBlocks[pi].processed
  /\ \E pi \in PendingIds : rd.pendingBlocks[pi].continuation = NoBlock
  /\ Len(hist.calls) >= 2

\* the local functions no call has been translated for
NeverCalled == {pi \in PendingIds : CallsTo(pi) = {} /\ hist.failed.pi # pi}

\* C28: a local function for which no call has been translated is not
\* translated.  Its PendingBlock has no continuation and is not processed,
\* its body has not been traversed, its block has no instruction, no
\* terminator and no predecessor, is not in the block list of the SCFG and
\* is not touched by the sorts of computeNormalForm.
C28_NeverCalled ==
  \A pi \in NeverCalled :
    LET pb == rd.pendingBlocks[pi]
        b  == rd.blocks[pb.block]
    IN /\ pb.continuation = NoBlock
       /\ ~pb.processed
       /\ hist.bodies[pi] = 0
       /\ b.instrs = <<>> /\ b.term = NoTerm /\ b.preds = <<>>
       /\ ~b.cfg
       /\ \A i \in 1..Len(rd.cfgBlocks) : rd.cfgBlocks[i] # pb.block
       /\ ~b.Visited
       /\ b.DominatorNode = NewTopologyNode /\ b.PostDominatorNode = NewTopologyNode

\* computeNormalForm has passed both sorts on an SCFG with a local function
\* that was called and one that was not
C28_Witness ==
  /\ CFGPhase = "ssa"
  /\ rd.fatal = NoFatal
  /\ NeverCalled # {}
  /\ PendingIds \ NeverCalled # {}

\* a step that is a call of reduceCall on a local function and does not fail
CallStep ==
  At("Call.target") /\ ret.k = "code" /\ ret.a # 0 /\ rd'.fatal = NoFatal =>
    LET pi     == rd.codeMap[ret.a]
        target == rd.pendingBlocks[pi].block
        from   == rd.currentBB
        join   == Len(rd.blocks) + 1
    IN /\ from # NoBlock
       /\ rd'.blocks[from].term = Goto(target, Len(rd.blocks[target].preds))
       /\ rd'.blocks[target].preds = Append(rd.blocks[target].preds, from)
       /\ rd'.pendingBlockQueue = Append(rd.pendingBlockQueue, pi)
       /\ rd'.currentContinuation = rd.currentContinuation
       /\ IF rd.currentContinuation = NoBlock
            THEN /\ Len(rd'.blocks) = join
                 /\ Len(rd'.blocks[join].args) = 1
                 /\ rd'.blocks[join].preds = <<>>
                 /\ rd'.currentBB = join
                 /\ ret' = PhiRef(join, 1)
                 /\ rd'.pendingBlocks[pi].continuation = join
            ELSE /\ Len(rd'.blocks) = Len(rd.blocks)
                 /\ rd'.currentBB = NoBlock
                 /\ ret' = Null
                 /\ rd'.pendingBlocks[pi].continuation = rd.currentContinuation

\* C29: a call of a local function that does not fail ends the current
\* block with a Goto to the block of the function, which gets the current
\* block as predecessor, and appends the index of the PendingBlock to the
\* queue.  Without current continuation a new block with one phi is
\* allocated, becomes the current block and its phi is the value returned;
\* with a current continuation no block is allocated, no block is open
\* afterwards and no value is returned.
C29_CallToPendingBlock == [][CallStep]_vars

\* a call without current continuation has been translated, and one with
C29_Witness ==
  /\ rd.fatal = NoFatal
  /\ \E i, j \in 1..Len(hist.calls) : hist.calls[i].fresh /\ ~hist.calls[j].fresh

\* the continuation with which the call of traverseIfThenElse whose frame
\* is on top of the stack began: the frame below is that of the traverse
\* that called it, which keeps the continuation in tail position only
StartContinuation ==
  LET f == stack[Len(stack) - 1]
  IN IF f.k = "Tail" THEN f.cont ELSE NoBlock

IfStep ==
  /\ At("If.cond") /\ rd'.fatal = NoFatal =>
       LET from == rd.currentBB
           tb   == Len(rd.blocks) + 1
           eb   == Len(rd.blocks) + 2
           f    == stack'[Len(stack') - 1]
       IN /\ rd'.blocks[from].term = Branch(ret, tb, eb)
          /\ rd'.blocks[tb].preds = <<from>> /\ rd'.blocks[eb].preds = <<from>>
          /\ rd'.currentBB = tb
          /\ f.currCont = StartContinuation
          /\ f.cont # NoBlock
          /\ f.currCont # NoBlock => f.cont = f.currCont
          /\ rd'.currentContinuation = f.cont
  /\ At("If.then") /\ rd'.fatal = NoFatal =>
       LET f == stack'[Len(stack') - 1]
       IN /\ rd'.currentBB = Top.eb
          /\ rd'.currentContinuation = Top.cont
          /\ f.cont = Top.cont /\ f.currCont = Top.currCont
          /\ Top.currCont = StartContinuation
  /\ At("If.else") /\ rd'.fatal = NoFatal =>
       /\ Top.currCont = StartContinuation
       /\ rd'.currentContinuation = StartContinuation
       /\ StartContinuation # NoBlock => ret' = Null /\ rd'.blocks = rd.blocks
  /\ \A b \in 1..Len(rd'.blocks) :
       rd'.blocks[b].term.k = "branch" =>
         /\ rd'.blocks[rd'.blocks[b].term.t1].preds = <<b>>
         /\ rd'.blocks[rd'.blocks[b].term.t2].preds = <<b>>

\* C30: traverseIfThenElse in an open block ends it with a Branch to two
\* new blocks, each of which has the ended block as its only predecessor,
\* then and later; the then-expression and the else-expression are
\* translated from these blocks under one continuation, the one the
\* conditional began with or, if there was none, a new block; when the
\* conditional returns the continuation is the one it began with, and if
\* there was one no value is returned.
C30_Conditional == [][IfStep]_vars

\* a conditional in tail position has returned, the arms of which are a
\* call and a conditional
C30_Witness ==
  /\ rd.fatal = NoFatal
  /\ At("traverse.end") /\ Top.k = "Tail" /\ Top.cont # NoBlock
  /\ ret = Null /\ rd.currentBB = NoBlock
  /\ hist.calls # <<>>
  /\ Cardinality({b \in 1..Len(rd.blocks) : rd.blocks[b].term.k = "branch"}) = 2
  /\ rd.currentContinuation = Top.cont

\* the last If, then and else that were read are a conditional whose arms
\* are leaves
ArmsAreLeaves ==
  LET n == Len(prog.shape)
  IN /\ n >= 3
     /\ prog.shape[n - 2].op = "IfThenElse"
     /\ prog.shape[n - 1] \in ExprLeaves
     /\ prog.shape[n] \in ExprLeaves
\* the values of the arms
ThenValue == reduceIdentifier(rd, prog.shape[Len(prog.shape) - 1].name).v
ElseValue == reduceIdentifier(rd, prog.shape[Len(prog.shape)].name).v

\* the end of traverseIfThenElse, for a conditional that found no
\* continuation: cont is the join block.  With simple, no block was
\* allocated after the join block: the arms contain no conditional.
JoinStep(simple) ==
  /\ At("If.else")
  /\ Top.currCont = NoBlock
  /\ simple => Top.cont = Len(rd.blocks)
  => LET j == Top.cont
     IN /\ rd'.fatal = NoFatal
        /\ Len(rd.blocks[j].args) = 1
        /\ rd.blocks[j].preds = <<j - 2, j - 1>>
        /\ \E b \in 1..Len(rd.blocks) :
             /\ successors(rd, b) = <<j - 2, j - 1>>
             /\ rd.blocks[j - 2].preds = <<b>>
             /\ rd.blocks[j - 1].preds = <<b>>
        /\ rd.blocks[j - 2].term = Goto(j, 0)
        /\ rd.blocks[j - 1].term = Goto(j, 1)
        /\ Len(rd.blocks[j].args[1]) = 2
        /\ ArmsAreLeaves => rd.blocks[j].args[1] = <<ThenValue, ElseValue>>
        /\ rd.currentContinuation = j
        /\ rd'.currentBB = j
        /\ rd'.blocks[j].preds = rd.blocks[j].preds
        /\ ret' = PhiRef(j, 1)

-----------------------------------------------------------------------------
(* Properties of the SCFG under construction *)

AllBlocks == 1..Len(rd.blocks)
Succs(b) == {successors(rd, b)[i] : i \in 1..Len(successors(rd, b))}
Preds(b) == {rd.blocks[b].preds[i] : i \in 1..Len(rd.blocks[b].preds)}

\* C21: from startCFG on, during the translation, the drain and after
\* computeNormalForm, Entry has no predecessor and no terminator names it,
\* Exit keeps its Return (it has no successor), and Exit is never the
\* current block.
C21_EntryExit ==
  rd.entry # NoBlock =>
    /\ rd.blocks[rd.entry].preds = <<>>
    /\ \A b \in AllBlocks : rd.entry \notin Succs(b)
    /\ rd.blocks[rd.exit].term.k = "return"
    /\ Succs(rd.exit) = {}
    /\ rd.currentBB # rd.exit

\* a normalized SCFG with a Branch, a call of a local function and an edge
\* into Exit
C21_Witness ==
  /\ At("finishCFG.ssa")
  /\ hist.calls # <<>>
  /\ \E b \in AllBlocks : rd.blocks[b].term.k = "branch"
  /\ rd.blocks[rd.exit].preds # <<>>

-----------------------------------------------------------------------------
(* The normal form of arbitrary SCFGs: a client builds an SCFG block by    *)
(* block, each block ending in a Goto or in a Branch to blocks of its      *)
(* choice, and calls computeNormalForm, which is followed stage by stage.  *)
(* A block gets its number when it is first the target of a terminator.    *)

NormFrame == UNCHANGED <<stack, ret, prog, hist>>
Building == norm.stage = "build" /\ rd.fatal = NoFatal

NormInit ==
  /\ rd = startCFG(NewReducer)
  /\ norm = [stage |-> "build", max |-> NormBlocks]
  /\ stack = <<>>
  /\ ret = Null
  /\ prog = NoInput
  /\ hist = NoHist

\* the blocks a terminator can name: those there are, Entry excepted, and
\* one more
NormTargets == 2..(IF Len(rd.blocks) < norm.max THEN Len(rd.blocks) + 1 ELSE Len(rd.blocks))

\* the block is allocated if it is not there yet
withBlock(r, t) == IF t > Len(r.blocks) THEN addBlock(r, 0) ELSE r

\* the next block without terminator is started; when there is none the
\* SCFG is complete
startNext(r) ==
  LET open == {b \in 1..Len(r.blocks) : r.blocks[b].term = NoTerm}
  IN IF open = {} \/ r.fatal # NoFatal THEN r
     ELSE startBlock(r, CHOOSE b \in open : \A c \in open : b <= c)

stageAfter(r) ==
  IF \E b \in 1..Len(r.blocks) : r.blocks[b].term = NoTerm THEN "build" ELSE "built"

\* the current block ends in a Goto
NGoto ==
  /\ Building
  /\ \E t \in NormTargets :
       LET r1 == withBlock(rd, t)
           r2 == IF t = rd.exit THEN createGoto1(r1, t, Lit(10))
                 ELSE createGotoN(r1, t, <<>>, 0)
       IN /\ rd' = startNext(r2)
          /\ norm' = [norm EXCEPT !.stage = stageAfter(r2)]
  /\ NormFrame

\* new Branch(c, t1, t2) on blocks of the client's choice: both targets get
\* the current block as predecessor
branchTo(r, t1, t2) ==
  LET r1 == addPredecessor(r, t1, r.currentBB)
      r2 == addPredecessor(r1, t2, r.currentBB)
  IN finishBlock(r2, Branch(Lit(10), t1, t2))

\* the current block ends in a Branch
NBranch ==
  /\ Building
  /\ \E t1, t2 \in NormTargets \cup {Len(rd.blocks) + 2} :
       /\ t1 # t2
       /\ t1 <= norm.max /\ t2 <= norm.max
       /\ t2 = Len(rd.blocks) + 2 => t1 = Len(rd.blocks) + 1
       /\ t1 # Len(rd.blocks) + 2
       /\ LET r1 == branchTo(withBlock(withBlock(rd, Len(rd.blocks) + 1), t2), t1, t2)
              r0 == branchTo(withBlock(rd, IF t1 > t2 THEN t1 ELSE t2), t1, t2)
              r2 == IF t2 = Len(rd.blocks) + 2 THEN r1 ELSE r0
          IN /\ rd' = startNext(r2)
             /\ norm' = [norm EXCEPT !.stage = stageAfter(r2)]
  /\ NormFrame

Stage(from, to, r) ==
  /\ norm.stage = from
  /\ rd.fatal = NoFatal
  /\ rd' = r
  /\ norm' = [norm EXCEPT !.stage = to]
  /\ NormFrame

NSortFromExit ==
  /\ norm.stage = "built"
  /\ Stage("built", "sorted.exit", sortFromExit(rd))

NPostDominators ==
  /\ norm.stage = "sorted.exit"
  /\ LET r0 == postDominators(rd, 1, Crash)
     IN IF r0.ub
          THEN \E g \in Garbage(rd) : Stage("sorted.exit", "postdom", postDominators(rd, 1, g))
          ELSE Stage("sorted.exit", "postdom", r0)

NSortFromEntry ==
  /\ norm.stage = "postdom"
  /\ Stage("postdom", "sorted.entry", sortFromEntry(rd))

NDominators ==
  /\ norm.stage = "sorted.entry"
  /\ LET r0 == dominators(renumber(rd, 1), 1, Crash)
     IN IF r0.ub
          THEN \E g \in Garbage(rd) :
                 Stage("sorted.entry", "dominators", dominators(renumber(rd, 1), 1, g))
          ELSE Stage("sorted.entry", "dominators", r0)

NNodeIDs ==
  /\ norm.stage = "dominators"
  /\ Stage("dominators", "done", nodeIDs(nodeSizes(rd, Len(rd.cfgBlocks)), 1))

NormNext ==
  \/ NGoto
  \/ NBranch
  \/ NSortFromExit
  \/ NPostDominators
  \/ NSortFromEntry
  \/ NDominators
  \/ NNodeIDs

SpecNorm == NormInit /\ [][NormNext]_vars

\* the same for an SCFG in which the client has allocated a block before
\* Entry has its terminator: no terminator names it yet, and none may ever
OrphanInit ==
  /\ rd = addBlock(startCFG(NewReducer), 0)
  /\ norm = [stage |-> "build", max |-> OrphanBlocks]
  /\ stack = <<>>
  /\ ret = Null
  /\ prog = NoInput
  /\ hist = NoHist

SpecOrphan == OrphanInit /\ [][NormNext]_vars

-----------------------------------------------------------------------------
(* Properties of the normal form *)

CfgBlocks == {rd.cfgBlocks[i] : i \in 1..Len(rd.cfgBlocks)}
DomParent(b) == rd.blocks[b].DominatorNode.Parent

\* following the parent links from b for at most n steps reaches Entry
RECURSIVE ReachesEntry(_, _)
ReachesEntry(b, n) ==
  \/ b = rd.entry
  \/ /\ n > 0
     /\ b # NoBlock
     /\ ReachesEntry(DomParent(b), n - 1)

\* C10: when computeNormalForm has computed the dominators of an SCFG that
\* passed both sorts, Entry has no dominator parent, every other block has
\* one, the parent links lead from every block to Entry, and no null parent
\* was read on the way.
C10_DominatorTree ==
  /\ ~rd.ub
  /\ norm.stage \in {"dominators", "done"} /\ rd.fatal = NoFatal =>
       /\ DomParent(rd.entry) = NoBlock
       /\ \A b \in CfgBlocks \ {rd.entry} : DomParent(b) # NoBlock
       /\ \A b \in CfgBlocks : ReachesEntry(b, Len(rd.blocks))

\* the comparison "x < s" of unsigned int, x being a difference of two
\* values below 2^31 and s a value below 2^31: a negative difference wraps
\* around to x + 2^32, which is at least 2^31 and so not below s
uintLess(x, s) == IF x < 0 THEN FALSE ELSE x < s

\* jagger::wax::Block::dominates, on the IDs and sizes of the dominator tree
dominates(a, b) ==
  uintLess(rd.blocks[b].DominatorNode.NodeID - rd.blocks[a].DominatorNode.NodeID,
           rd.blocks[a].DominatorNode.SizeOfSubTree)

\* jagger::wax::Block::postDominates
postDominates(a, b) ==
  uintLess(rd.blocks[b].PostDominatorNode.NodeID - rd.blocks[a].PostDominatorNode.NodeID,
           rd.blocks[a].PostDominatorNode.SizeOfSubTree)

\* a is b, or is reached from b by at most n parent links of the tree tn
RECURSIVE Ancestor(_, _, _, _)
Ancestor(tn, a, b, n) ==
  \/ a = b
  \/ /\ n > 0
     /\ rd.blocks[b][tn].Parent \in CfgBlocks
     /\ Ancestor(tn, a, rd.blocks[b][tn].Parent, n - 1)

\* the blocks of the subtree of a in the tree tn
SubTree(tn, a) == {b \in CfgBlocks : Ancestor(tn, a, b, Len(rd.blocks))}

NormalFormDone == norm.stage = "done" /\ rd.fatal = NoFatal

\* C11: after computeNormalForm, for all blocks A and B of the SCFG the
\* interval test of Block::dominates holds exactly when A is B or an
\* ancestor of B by the dominator parent links, and the subtree size of
\* every block is the number of blocks of its dominator subtree.
C11_DominatorIntervals ==
  NormalFormDone =>
    /\ \A a, b \in CfgBlocks :
         dominates(a, b) <=> Ancestor("DominatorNode", a, b, Len(rd.blocks))
    /\ \A a \in CfgBlocks :
         rd.blocks[a].DominatorNode.SizeOfSubTree
           = Cardinality(SubTree("DominatorNode", a))

\* the same for the SCFGs whose dominator links form a tree rooted at Entry
DominatorTreeOk ==
  /\ ~rd.ub
  /\ DomParent(rd.entry) = NoBlock
  /\ \A b \in CfgBlocks : ReachesEntry(b, Len(rd.blocks))

C11_TreeIntervals == DominatorTreeOk => C11_DominatorIntervals

C11_Witness ==
  /\ NormalFormDone /\ DominatorTreeOk
  /\ Len(rd.cfgBlocks) = 5
  /\ \E a, b \in CfgBlocks \ {rd.entry} :
       /\ a # b /\ DomParent(b) = a
       /\ \E c \in CfgBlocks \ {rd.entry, a, b} : ~dominates(a, c) /\ ~dominates(c, a)

PostDomParent(b) == rd.blocks[b].PostDominatorNode.Parent

\* C12: after computeNormalForm, for all blocks A and B of the SCFG the
\* interval test of Block::postDominates holds exactly when A is B or an
\* ancestor of B by the post-dominator parent links; no two blocks have the
\* same post-dominator ID, and the post-dominator subtree of Exit has the
\* size of the SCFG.
C12_PostDominatorIntervals ==
  NormalFormDone =>
    /\ \A a, b \in CfgBlocks :
         postDominates(a, b) <=> Ancestor("PostDominatorNode", a, b, Len(rd.blocks))
    /\ \A a, b \in CfgBlocks :
         a # b => rd.blocks[a].PostDominatorNode.NodeID # rd.blocks[b].PostDominatorNode.NodeID
    /\ rd.blocks[rd.exit].PostDominatorNode.SizeOfSubTree = Len(rd.cfgBlocks)

\* the post-dominator links form a tree rooted at Exit whose parents come
\* after their children in Blocks
PostDominatorTreeOk ==
  /\ ~rd.ub
  /\ PostDomParent(rd.exit) = NoBlock
  /\ \A b \in CfgBlocks : Ancestor("PostDominatorNode", rd.exit, b, Len(rd.blocks))
  /\ \A b \in CfgBlocks \ {rd.exit} :
       rd.blocks[PostDomParent(b)].BlockID > rd.blocks[b].BlockID

C12_OrderedIntervals == PostDominatorTreeOk => C12_PostDominatorIntervals

\* the blocks from which a block of S is reached by predecessor links
RECURSIVE BackReach(_)
BackReach(S) ==
  LET T == S \cup UNION {{rd.blocks[b].preds[i] : i \in 1..Len(rd.blocks[b].preds)} : b \in S}
  IN IF T = S THEN S ELSE BackReach(T)

\* the blocks reached from a block of S by successor links
RECURSIVE ForwardReach(_)
ForwardReach(S) ==
  LET T == S \cup UNION {{successors(rd, b)[i] : i \in 1..Len(successors(rd, b))} : b \in S}
  IN IF T = S THEN S ELSE ForwardReach(T)

SortStep ==
  /\ norm.stage = "built" /\ norm'.stage = "sorted.exit" =>
       LET s      == postTopologicalSort(rd, rd.exit, Len(rd.cfgBlocks))
           missed == CfgBlocks \ BackReach({rd.exit})
       IN /\ s.r.fatal = NoFatal
          /\ s.id = Cardinality(missed)
          /\ rd'.fatal = IF missed = {} THEN NoFatal ELSE "NumUnreachableBlocks == 0"
  /\ norm.stage = "postdom" /\ norm'.stage = "sorted.entry" =>
       LET s      == topologicalSort(rd, rd.entry, Len(rd.cfgBlocks))
           missed == CfgBlocks \ ForwardReach({rd.entry})
       IN /\ s.r.fatal = NoFatal
          /\ s.id = Cardinality(missed)
          /\ rd'.fatal = IF missed = {} THEN NoFatal ELSE "NumUnreachableBlocks == 0"
  /\ rd.fatal # NoFatal => rd' = rd /\ norm' = norm
  /\ rd'.fatal = "NumUnreachableBlocks == 0" =>
       /\ norm'.stage \in {"sorted.exit", "sorted.entry"}
       /\ \A b \in 1..Len(rd.blocks) :
            /\ rd'.blocks[b].DominatorNode = NewTopologyNode
            /\ norm'.stage = "sorted.exit" => rd'.blocks[b].PostDominatorNode = NewTopologyNode
            /\ norm'.stage = "sorted.entry" =>
                 rd'.blocks[b].PostDominatorNode = rd.blocks[b].PostDominatorNode

DiamondA == successors(rd, rd.entry)[1]
DiamondB == successors(rd, rd.entry)[2]
Diamond ==
  /\ Len(rd.blocks) = 4
  /\ norm.stage # "build"
  /\ Len(successors(rd, rd.entry)) = 2
  /\ {DiamondA, DiamondB} = (1..4) \ {rd.entry, rd.exit}
  /\ successors(rd, DiamondA) = <<rd.exit>>
  /\ successors(rd, DiamondB) = <<rd.exit>>

\* C13: computeNormalForm does not fail on the diamond, and when it is done
\* Entry dominates A, B and Exit, A and B dominate neither each other nor
\* Exit (by the parent links and by the interval test), the dominator
\* parent of Exit is Entry and the post-dominator parent of Entry, of A and
\* of B is Exit.
C13_Diamond ==
  Diamond =>
    /\ rd.fatal = NoFatal /\ ~rd.ub
    /\ norm.stage = "done" =>
         /\ \A b \in {DiamondA, DiamondB, rd.exit} :
              /\ Ancestor("DominatorNode", rd.entry, b, 4)
              /\ dominates(rd.entry, b)
         /\ \A a \in {DiamondA, DiamondB} : \A b \in {DiamondA, DiamondB, rd.exit} \ {a} :
              /\ ~Ancestor("DominatorNode", a, b, 4)
              /\ ~dominates(a, b)
         /\ DomParent(rd.exit) = rd.entry
         /\ \A b \in {rd.entry, DiamondA, DiamondB} : PostDomParent(b) = rd.exit

C13_Witness == Diamond /\ norm.stage = "done" /\ rd.fatal = NoFatal

-----------------------------------------------------------------------------
(* Dominators by their definition on paths *)

\* the blocks reached from a block of S by successor links on paths that
\* do not enter a
RECURSIVE ReachAvoiding(_, _)
ReachAvoiding(S, a) ==
  LET T == S \cup (UNION {Succs(b) : b \in S} \ {a})
  IN IF T = S THEN S ELSE ReachAvoiding(T, a)

\* the blocks from which a block of S is reached by predecessor links on
\* paths that do not enter a
RECURSIVE BackReachAvoiding(_, _)
BackReachAvoiding(S, a) ==
  LET T == S \cup (UNION {Preds(b) : b \in S} \ {a})
  IN IF T = S THEN S ELSE BackReachAvoiding(T, a)

\* a is on every path from Entry to b
PathDominates(a, b) == a = b \/ b \notin ReachAvoiding({rd.entry} \ {a}, a)
\* a is on every path from b to Exit
PathPostDominates(a, b) == a = b \/ b \notin BackReachAvoiding({rd.exit} \ {a}, a)

StrictDominators(b) == {a \in CfgBlocks \ {b} : PathDominates(a, b)}
StrictPostDominators(b) == {a \in CfgBlocks \ {b} : PathPostDominates(a, b)}

\* p is the immediate dominator of b
ImmediateDominator(p, b) ==
  /\ p \in StrictDominators(b)
  /\ \A d \in StrictDominators(b) : PathDominates(d, p)

\* p is the immediate post-dominator of b
ImmediatePostDominator(p, b) ==
  /\ p \in StrictPostDominators(b)
  /\ \A d \in StrictPostDominators(b) : PathPostDominates(d, p)

DominatorsDone == norm.stage \in {"dominators", "done"} /\ rd.fatal = NoFatal

\* C22: when computeNormalForm has computed the dominators of an SCFG that
\* passed both sorts, the dominator parent of every block other than Entry
\* is its immediate dominator: it is on every path from Entry to the block,
\* and every other strict dominator of the block dominates it.
C22_ImmediateDominators ==
  DominatorsDone =>
    \A b \in CfgBlocks \ {rd.entry} : ImmediateDominator(DomParent(b), b)

\* every edge that the sort from Entry numbers backwards leads to a
\* dominator of its source: every loop is entered at one block only
LoopsHaveOneEntry ==
  \A u \in CfgBlocks : \A v \in Succs(u) :
    rd.blocks[v].BlockID <= rd.blocks[u].BlockID => PathDominates(v, u)

\* the same for the SCFGs whose loops are entered at one block only
C22_OneEntryLoops == LoopsHaveOneEntry => C22_ImmediateDominators

\* an SCFG with a loop whose dominators are right
C22_Witness ==
  /\ DominatorsDone /\ LoopsHaveOneEntry
  /\ Len(rd.cfgBlocks) = 5
  /\ \E b \in CfgBlocks : \E c \in Succs(b) :
       c # b /\ PathDominates(c, b) /\ DomParent(c) # rd.entry

PostDominatorsDone ==
  norm.stage \in {"postdom", "sorted.entry", "dominators", "done"} /\ rd.fatal = NoFatal

\* C23: when computeNormalForm has computed the post-dominators of an SCFG
\* that passed the sort from Exit, the post-dominator parent of every block
\* other than Exit is its immediate post-dominator: it is on every path from
\* the block to Exit, and every other strict post-dominator of the block
\* post-dominates it.
C23_ImmediatePostDominators ==
  PostDominatorsDone =>
    \A b \in CfgBlocks \ {rd.exit} : ImmediatePostDominator(PostDomParent(b), b)

\* every edge that the sort from Exit numbers backwards comes from a
\* post-dominator of its target: every loop is left from one block only
LoopsHaveOneExit ==
  \A u \in CfgBlocks : \A v \in Succs(u) :
    rd.blocks[v].PostBlockID >= rd.blocks[u].PostBlockID => PathPostDominates(u, v)

\* the same for the SCFGs whose loops are left from one block only
C23_OneExitLoops == LoopsHaveOneExit => C23_ImmediatePostDominators

\* an SCFG with a loop whose post-dominators are right
C23_Witness ==
  /\ PostDominatorsDone /\ LoopsHaveOneExit
  /\ Len(rd.cfgBlocks) = 5
  /\ \E u \in CfgBlocks : \E v \in Succs(u) :
       u # v /\ PathPostDominates(u, v) /\ PostDomParent(u) # rd.exit

\* the parents of the tree tn are the same in r as in the reducer
SameParents(r, tn) ==
  /\ r.fatal = NoFatal
  /\ \A b \in CfgBlocks : r.blocks[b][tn].Parent = rd.blocks[b][tn].Parent

\* C24: after computeNormalForm, computeDominator run once more on every
\* block in the order of the block IDs leaves every dominator parent as it
\* is, and computePostDominator run once more on every block in the order
\* of the post-order IDs leaves every post-dominator parent as it is.
C24_FixedPoint ==
  NormalFormDone =>
    \A g \in Garbage(rd) :
      /\ SameParents(rerunDominators(rd, 1, g), "DominatorNode")
      /\ SameParents(rerunPostDominators(rd, 0, g), "PostDominatorNode")

\* the same for the runs in which no null parent was read
C24_WithoutNullRead == ~rd.ub => C24_FixedPoint

\* a normal form with a loop and without a read through a null parent
C24_Witness ==
  /\ NormalFormDone /\ ~rd.ub
  /\ Len(rd.cfgBlocks) = 5
  /\ \E u \in CfgBlocks : \E v \in Succs(u) : rd.blocks[v].BlockID < rd.blocks[u].BlockID
  /\ \E b \in CfgBlocks : DomParent(b) \notin {NoBlock, rd.entry}

\* no block is reached from one of its successors
Acyclic == \A b \in CfgBlocks : b \notin ForwardReach(Succs(b))

SortFromEntryStep ==
  norm.stage = "postdom" /\ norm'.stage = "sorted.entry" /\ rd'.fatal = NoFatal =>
    /\ Len(rd'.cfgBlocks) = Len(rd.cfgBlocks)
    /\ {rd'.cfgBlocks[i] : i \in 1..Len(rd'.cfgBlocks)} = CfgBlocks
    /\ \A i \in 1..Len(rd'.cfgBlocks) : rd'.blocks[rd'.cfgBlocks[i]].BlockID = i - 1
    /\ rd'.blocks[rd.entry].BlockID = 0
    /\ renumber(rd', 1) = rd'
    /\ Acyclic =>
         \A u \in CfgBlocks : \A v \in Succs(u) :
           rd'.blocks[u].BlockID < rd'.blocks[v].BlockID

\* C25: when the sort from Entry returns 0, Blocks holds the blocks it held
\* before, each once, the block at index i has BlockID i (renumber changes
\* no BlockID), Entry has BlockID 0, and in an SCFG without cycle every edge
\* leads from a smaller BlockID to a greater one.
C25_TopologicalOrder == [][SortFromEntryStep]_vars

\* a sorted SCFG of five blocks without cycle in which Entry branches and
\* the sort has moved blocks
C25_Witness ==
  /\ norm.stage = "sorted.entry" /\ rd.fatal = NoFatal
  /\ Len(rd.cfgBlocks) = 5
  /\ Acyclic
  /\ Len(successors(rd, rd.entry)) = 2
  /\ rd.cfgBlocks # <<1, 2, 3, 4, 5>>

SortedFromEntry ==
  norm.stage \in {"sorted.entry", "dominators", "done"} /\ rd.fatal = NoFatal

\* C26: when the sort from Entry has returned 0, every block with a
\* post-dominator parent has a smaller BlockID than that parent, blocks of
\* a loop whose post-dominator parent is the loop header included.
C26_PostDominatorsLast ==
  SortedFromEntry =>
    \A b \in CfgBlocks :
      PostDomParent(b) \in CfgBlocks =>
        rd.blocks[PostDomParent(b)].BlockID > rd.blocks[b].BlockID

\* the same for the SCFGs without cycle
C26_AcyclicLast == Acyclic => C26_PostDominatorsLast

\* a sorted SCFG without cycle in which the post-dominator parent of a block
\* is neither Exit nor a successor of the block
C26_Witness ==
  /\ SortedFromEntry /\ Acyclic
  /\ \E b \in CfgBlocks : PostDomParent(b) \in CfgBlocks \ ({rd.exit} \cup Succs(b))

-----------------------------------------------------------------------------
(* Properties of the block-level operations *)

BlockIds == 1..Len(rd.blocks)
GotosInto(t) == SelectSeq(hist.gotos, LAMBDA g : g.target = t)

\* C1: after any sequence of addPredecessor calls (direct, or made by a
\* Goto), every phi argument of every block has exactly as many operands as
\* the block has predecessors.
C1_PhiParity ==
  \A bb \in BlockIds :
    \A i \in 1..Len(rd.blocks[bb].args) :
      Len(rd.blocks[bb].args[i]) = Len(rd.blocks[bb].preds)

C1_Witness ==
  \E bb \in BlockIds :
    /\ Len(rd.blocks[bb].args) = 2
    /\ Len(rd.blocks[bb].preds) = 2
    /\ Len(rd.blocks[bb].args[2]) = 2

\* C2: every Goto emitted so far still has the value it supplied for phi i in
\* operand slot idx of phi i, idx being the edge index it was given; when all
\* the edges of a block were added by Gotos, the k-th Goto into it (from 0)
\* has edge index k; three single-value Gotos carrying 10, 20, 30 leave the
\* phi's operands equal to <<10, 20, 30>>.
C2_GotoSlots ==
  \A t \in BlockIds :
    LET gs == GotosInto(t)
    IN /\ \A k \in 1..Len(gs) :
            /\ gs[k].idx < Len(rd.blocks[t].preds)
            /\ \A i \in 1..Len(gs[k].vals) :
                 rd.blocks[t].args[i][gs[k].idx + 1] = gs[k].vals[i]
            /\ Len(gs) = Len(rd.blocks[t].preds) => gs[k].idx = k - 1
       /\ ( /\ Len(gs) = 3
            /\ Len(rd.blocks[t].preds) = 3
            /\ [k \in 1..3 |-> gs[k].vals] = << <<Lit(10)>>, <<Lit(20)>>, <<Lit(30)>> >> )
          => rd.blocks[t].args = << <<Lit(10), Lit(20), Lit(30)>> >>

C2_Witness ==
  \E t \in BlockIds :
    /\ Len(GotosInto(t)) = 3
    /\ rd.blocks[t].args = << <<Lit(10), Lit(20), Lit(30)>> >>

\* C3: a multi-argument Goto whose argument count differs from the target's
\* number of phi arguments ends in the fatal arity failure with nothing
\* changed: no edge, no phi operand, the current block still open; and a
\* Goto is emitted only when the counts agree.
C3_ArityFatalBeforeMutation ==
  /\ rd.fatal = "goto arity" =>
       /\ rd = Fatal(hist.pre.r, "goto arity")
       /\ Len(hist.pre.r.blocks[hist.pre.target].args) # hist.pre.nargs
       /\ rd.currentBB # NoBlock
       /\ rd.blocks[rd.currentBB].term = NoTerm
  /\ \A k \in 1..Len(hist.gotos) :
       Len(hist.gotos[k].vals) = Len(rd.blocks[hist.gotos[k].target].args)

C3_Witness ==
  /\ rd.fatal = "goto arity"
  /\ hist.pre.nargs = 2
  /\ Len(rd.blocks[hist.pre.target].args) = 1
  /\ Len(rd.blocks[hist.pre.target].preds) = 1

-----------------------------------------------------------------------------
(* Properties of the instruction buffer *)

NoDuplicates(s) == \A i, j \in 1..Len(s) : s[i] = s[j] => i = j
Elems(s) == {s[i] : i \in 1..Len(s)}

\* C31: after any sequence of addInstruction and finishBlock calls no
\* instruction is twice in the instruction list of a block or in the lists
\* of two blocks, every instruction of a list is stamped with the block of
\* the list, no literal, variable or application is in a list, the list of
\* a closed block is what was passed in, in the order of insertion, and
\* finishBlock leaves the buffer empty
C31_InstructionLists ==
  /\ \A b \in 1..Len(rd.blocks) :
       /\ NoDuplicates(rd.blocks[b].instrs)
       /\ \A e \in Elems(rd.blocks[b].instrs) :
            /\ e.k \in {"instr", "phi"}
            /\ instrBlock(rd, e) = b
       /\ \A c \in 1..Len(rd.blocks) :
            c # b => Elems(rd.blocks[b].instrs) \cap Elems(rd.blocks[c].instrs) = {}
       /\ rd.blocks[b].instrs = hist.stored[b]
  /\ hist.closed => rd.currentInstrs = <<>>

\* two blocks were closed with instructions, one of them with two, after a
\* value that is no instruction was passed
C31_Witness ==
  /\ rd.fatal = NoFatal
  /\ hist.closed
  /\ Null \in hist.seen
  /\ \E b, c \in 1..Len(rd.blocks) :
       /\ b # c
       /\ Len(rd.blocks[b].instrs) = 2
       /\ Len(rd.blocks[c].instrs) = 1

-----------------------------------------------------------------------------
(* Properties of the blocks of local functions *)

\* the parameters of the function literal of LetFun
LiteralParams == <<NameX>>

\* C32: the block allocated for a local function literal has one phi
\* argument per parameter of the literal, named after it, also when the
\* enclosing top-level function has a parameter on the scope stack, and a
\* call with as many arguments as the literal has parameters does not fail
\* the arity check of createGoto
C32_BlockArguments ==
  /\ \A pi \in 1..Len(rd.pendingBlocks) :
       LET b == rd.blocks[rd.pendingBlocks[pi].block]
       IN /\ Len(b.args) = Len(LiteralParams)
          /\ b.argNames = LiteralParams
  /\ rd.fatal # "goto arity"

\* every function literal of the input read so far is bound by a letrec
BoundByLetrec ==
  \A i \in 1..Len(prog.shape) :
    /\ prog.shape[i].op = "Let" => prog.shape[i].kind = "Letrec"
    /\ prog.shape[i].op = "Call" => prog.shape[i].target.fun.op = "Identifier"

\* the same for local functions bound by letrec: the declaration of the
\* function lies between its parameter and the parameter of the enclosing
\* function
C32_LetrecBlockArguments == BoundByLetrec => C32_BlockArguments

\* a local function bound by letrec was called with one argument and its
\* body was translated
C32_Witness ==
  /\ rd.fatal = NoFatal
  /\ \E i \in 1..Len(prog.shape) : prog.shape[i].op = "Let"
  /\ BoundByLetrec
  /\ hist.calls # <<>>
  /\ \E pi \in 1..Len(rd.pendingBlocks) : rd.pendingBlocks[pi].processed

-----------------------------------------------------------------------------
(* Properties of the scope stack around traversePendingBlocks *)

\* the scope stack of the translation of \p. Code(..) outside the lets of
\* the body: the declaration of p alone
ScopeOfFunction ==
  /\ ~rd.varCtxNull
  /\ Len(rd.varCtx) = 1
  /\ rd.vardecls[rd.varCtx[1]].name = NameP
  /\ rd.vardecls[rd.varCtx[1]].kind = "Fun"

Processed == {pi \in 1..Len(rd.pendingBlocks) : rd.pendingBlocks[pi].processed}

\* traversePendingBlocks has returned and the enclosing function has not
\* left its scope yet
AfterDrain == InStack("Function.body") /\ CFGPhase \in {"normal", "ssa", "left"}

\* C34: the scope stack that finishCFG finds when the body of the top-level
\* Code is translated, the declaration of p, is the scope stack after
\* traversePendingBlocks, however many pending blocks were translated, so
\* the exitScope of the enclosing function finds p on top
C34_ScopeKept ==
  /\ (At("Code.body") \/ AfterDrain) => ScopeOfFunction
  /\ rd.fatal # "null varCtx_"

\* the same when the queue held no pending block that was translated
C34_ScopeKeptWithoutBodies ==
  (Processed = {} /\ ~InStack("drain.end")) => C34_ScopeKept

\* finishCFG has returned after a drain that translated no pending block
\* although a local function was declared
C34_Witness ==
  /\ rd.fatal = NoFatal
  /\ AfterDrain
  /\ CFGPhase = "left"
  /\ rd.pendingBlocks # <<>>
  /\ Processed = {}

-----------------------------------------------------------------------------
(* Properties of the opening and closing of blocks *)

\* the assertions of startBlock
StartBlockAsserts ==
  {"Haven't finished current block.", "currentArgs_.empty()",
   "currentInstrs_.empty()", "Already processed block."}

\* the block that is open has no terminator and no instructions yet, and
\* the buffers are empty while no block is open
OneOpenBlock ==
  /\ rd.currentBB # NoBlock =>
       /\ rd.blocks[rd.currentBB].term = NoTerm
       /\ rd.blocks[rd.currentBB].instrs = <<>>
  /\ rd.currentBB = NoBlock => rd.currentArgs = <<>> /\ rd.currentInstrs = <<>>

\* a terminator that is set stays as it is
TerminatorStep ==
  \A b \in 1..Len(rd.blocks) :
    rd.blocks[b].term # NoTerm => rd'.blocks[b].term = rd.blocks[b].term

\* C33: at most one block is open and each block is closed once: no
\* assertion of startBlock fails, the open block has no terminator and no
\* instructions, no terminator is set a second time, and when
\* computeNormalForm starts every block of the SCFG but Exit has a
\* terminator, Exit the one of its construction
C33_BlocksClosedOnce ==
  /\ [](rd.fatal \notin StartBlockAsserts)
  /\ [](rd.fatal = NoFatal => OneOpenBlock)
  /\ [][TerminatorStep]_vars
  /\ [](At("finishCFG.normal") =>
          /\ rd.currentBB = NoBlock
          /\ \A i \in 1..Len(rd.cfgBlocks) : rd.blocks[rd.cfgBlocks[i]].term # NoTerm
          /\ rd.blocks[rd.exit].term.k = "return")

\* computeNormalForm starts on an SCFG with a conditional, the block of a
\* local function and a continuation that a call made
C33_Witness ==
  /\ At("finishCFG.normal")
  /\ Len(rd.cfgBlocks) >= 6
  /\ \E b \in 1..Len(rd.blocks) : rd.blocks[b].term.k = "branch"
  /\ \E pi \in PendingIds : rd.pendingBlocks[pi].processed
  /\ \E i \in 1..Len(hist.calls) : hist.calls[i].fresh

-----------------------------------------------------------------------------
(* Properties of SimpleArray *)

\* Size <= Capacity, the allocation has Capacity cells, and the cells below
\* Size hold what the client stored, each at its index
ArrayHolds ==
  /\ rd.Size <= rd.Capacity
  /\ Len(rd.cells) = rd.Capacity
  /\ rd.Size = Len(hist.stored)
  /\ \A i \in 1..rd.Size : rd.cells[i] = hist.stored[i]

\* one call: the capacity does not go down, no stored element moves or
\* changes, a resize above Size fills the cells from Size to n-1 and no
\* other, and a resize that is not above Size changes nothing
ArrayStep ==
  /\ rd'.Capacity >= rd.Capacity
  /\ rd'.Size >= rd.Size
  /\ \A i \in 1..rd.Size : rd'.cells[i] = rd.cells[i]
  /\ hist'.last.op = "resize" =>
       IF hist'.last.n > rd.Size
         THEN /\ rd'.Size = hist'.last.n
              /\ \A i \in (rd.Size + 1)..hist'.last.n : rd'.cells[i] = hist'.last.v
              /\ \A i \in (hist'.last.n + 1)..rd'.Capacity : rd'.cells[i] = Uninit
         ELSE rd' = rd

\* C35: for every sequence of reserve, reserveCheck, push_back after
\* reserveCheck(1) and resize, Size <= Capacity, the capacity never goes
\* down, the elements stored keep index and value through a reallocation,
\* resize(n) with n > Size sets the elements Size..n-1 to the fill value and
\* no other, resize(n) with n <= Size changes nothing, and the assertion of
\* push_back holds
C35_SimpleArray ==
  /\ [](ArrayHolds /\ rd.fatal = NoFatal)
  /\ [][ArrayStep]_vars

\* a resize above Size has filled two cells of an array that was
\* reallocated twice and holds an element of another value
C35_Witness ==
  /\ hist.last.op = "resize"
  /\ rd.Data >= 3
  /\ rd.Size > InitialCapacity
  /\ rd.cells[rd.Size] = "b" /\ rd.cells[rd.Size - 1] = "b"
  /\ rd.cells[1] = "a"

====
